---- MODULE Spec2Model ----
(***************************************************************************)
(* Brand-mention tracker: ingestion -> aggregation -> enrichment ->        *)
(* persistence -> anomaly detection -> alert lifecycle.                    *)
(*                                                                         *)
(* Time is counted in ticks of half an hour (TicksPerHour ticks make one   *)
(* hour bucket).  Confidence scores are percentages (50 stands for 0.5).   *)
(* Text is a sequence of characters, " " being the only whitespace.        *)
(***************************************************************************)
EXTENDS Integers, Sequences, FiniteSets, TLC

(***************************************************************************)
(* Bounds of the model.                                                    *)
(***************************************************************************)
MaxTime == 77
MaxRuns == 2
MaxAlerts == 1
MaxCalls == 2
MaxMentions == 2

(***************************************************************************)
(* Program constants.                                                      *)
(***************************************************************************)
TicksPerHour == 2
DefaultSigmaTimes2 == 5
DefaultWindowHours == 24
FallbackConfidence == 50
SpikeHighPct == 100
ShiftNegativePct == 50
ShiftPositivePct == 20
ShiftHighPct == 70
DefaultDays == 7
DefaultListLimit == 50

NoTs == 0
BadTs == -1
NoTime == 0

Procs == {1, 2}
AdapterOrder == <<"twitter", "reddit", "news", "blogs">>

(* Parsed JSON.  A body is an object holding the list of raw items, or     *)
(* something that is not an object; likewise every raw item.               *)
Body(items) == [shape |-> "object", items |-> items]
BadBody == [shape |-> "not_an_object", items |-> <<>>]
Item(title, text, ts) ==
    [shape |-> "object", title |-> title, text |-> text, ts |-> ts]
BadItem == [shape |-> "not_an_object", title |-> <<>>, text |-> <<>>, ts |-> 0]

(***************************************************************************)
(* Generic helpers.                                                        *)
(***************************************************************************)
(* mutant: the lists end up in reverse argument order *)
RECURSIVE FlattenReversed(_)
FlattenReversed(lists) ==
    IF lists = <<>> THEN <<>>
    ELSE FlattenReversed(Tail(lists)) \o Head(lists)

RECURSIVE Flatten(_)
Flatten(lists) ==
    IF lists = <<>> THEN <<>> ELSE Head(lists) \o Flatten(Tail(lists))

RECURSIVE SumSeq(_)
SumSeq(s) == IF s = <<>> THEN 0 ELSE Head(s) + SumSeq(Tail(s))

RECURSIVE SumSqSeq(_)
SumSqSeq(s) == IF s = <<>> THEN 0 ELSE Head(s) * Head(s) + SumSqSeq(Tail(s))

(***************************************************************************)
(* str.strip(): drop leading and trailing whitespace.                      *)
(***************************************************************************)
RECURSIVE LStrip(_)
LStrip(t) == IF t # <<>> /\ Head(t) = " " THEN LStrip(Tail(t)) ELSE t

RECURSIVE RStrip(_)
RStrip(t) ==
    IF t # <<>> /\ t[Len(t)] = " " THEN RStrip(SubSeq(t, 1, Len(t) - 1)) ELSE t

Strip(t) == RStrip(LStrip(t))

(***************************************************************************)
(* " ".join(parts): the parts separated by single blanks.                  *)
(***************************************************************************)
RECURSIVE JoinBlank(_)
JoinBlank(parts) ==
    IF parts = <<>> THEN <<>>
    ELSE IF Len(parts) = 1 THEN Head(parts)
    ELSE Head(parts) \o <<" ">> \o JoinBlank(Tail(parts))

Truthy(parts) == SelectSeq(parts, LAMBDA p : p # <<>>)

(***************************************************************************)
(* Source adapters.  A response describes what the remote service did:     *)
(*   creds  - TRUE when every credential the adapter needs is non-empty    *)
(*   auth   - "ok", "error" (network / non-2xx / unparsable) or "notoken"  *)
(*   search - "ok" or "error"                                              *)
(*   body   - the parsed JSON: BadBody, or Body(items), each item BadItem   *)
(*            or Item(title, text, ts).                                    *)
(* An adapter yields [raised, out]: raised = TRUE when an exception        *)
(* escapes the coroutine.                                                  *)
(***************************************************************************)
Returned(list) == [raised |-> FALSE, out |-> list]
Raised == [raised |-> TRUE, out |-> <<>>]

(* mutant: a tweet whose text is blank is kept *)
RECURSIVE TwitterNormalizeKeepBlank(_)
TwitterNormalizeKeepBlank(statuses) ==
    IF statuses = <<>> THEN Returned(<<>>)
    ELSE LET tw == Head(statuses) IN
         IF tw.shape # "object" THEN Raised
         ELSE LET rest == TwitterNormalizeKeepBlank(Tail(statuses))
              IN  IF rest.raised THEN Raised
                  ELSE Returned(<<[source |-> "twitter",
                                   content |-> Strip(tw.text),
                                   created_at |-> tw.ts]>> \o rest.out)

RECURSIVE TwitterNormalize(_)
TwitterNormalize(statuses) ==
    IF statuses = <<>> THEN Returned(<<>>)
    ELSE LET tw == Head(statuses) IN
         IF tw.shape # "object" THEN Raised
         ELSE LET rest == TwitterNormalize(Tail(statuses))
                  text == Strip(tw.text)
              IN  IF rest.raised THEN Raised
                  ELSE IF text = <<>> THEN rest
                  ELSE Returned(<<[source |-> "twitter", content |-> text,
                                   created_at |-> tw.ts]>> \o rest.out)

aggregate_from_twitter(resp) ==
    IF ~resp.creds THEN Returned(<<>>)
    ELSE IF resp.auth # "ok" THEN Returned(<<>>)
    ELSE IF resp.search # "ok" THEN Returned(<<>>)
    ELSE IF resp.body.shape # "object" THEN Raised
    ELSE TwitterNormalize(resp.body.items)

RedditCreatedIso(created_utc) ==
    IF created_utc > 0 THEN created_utc ELSE NoTs

RECURSIVE RedditNormalize(_)
RedditNormalize(children) ==
    IF children = <<>> THEN Returned(<<>>)
    ELSE LET child == Head(children) IN
         IF child.shape # "object" THEN Raised
         ELSE LET rest == RedditNormalize(Tail(children))
                  text == Strip(IF child.text # <<>> THEN child.text
                                ELSE child.title)
              IN  IF rest.raised THEN Raised
                  ELSE IF text = <<>> THEN rest
                  ELSE Returned(<<[source |-> "reddit", content |-> text,
                                   created_at |-> RedditCreatedIso(child.ts)]>>
                                \o rest.out)

aggregate_from_reddit(resp) ==
    IF ~resp.creds THEN Returned(<<>>)
    ELSE IF resp.auth # "ok" THEN Returned(<<>>)
    ELSE IF resp.search # "ok" THEN Returned(<<>>)
    ELSE IF resp.body.shape # "object" THEN Raised
    ELSE RedditNormalize(resp.body.items)

RECURSIVE NewsNormalize(_)
NewsNormalize(articles) ==
    IF articles = <<>> THEN Returned(<<>>)
    ELSE LET art == Head(articles) IN
         IF art.shape # "object" THEN Raised
         ELSE LET rest == NewsNormalize(Tail(articles))
                  full_content ==
                      Strip(JoinBlank(Truthy(<<art.title, art.text>>)))
              IN  IF rest.raised THEN Raised
                  ELSE IF full_content = <<>> THEN rest
                  ELSE Returned(<<[source |-> "news", content |-> full_content,
                                   created_at |-> art.ts]>> \o rest.out)

aggregate_from_news(resp) ==
    IF ~resp.creds THEN Returned(<<>>)
    ELSE IF resp.search # "ok" THEN Returned(<<>>)
    ELSE IF resp.body.shape # "object" THEN Returned(<<>>)
    ELSE LET r == NewsNormalize(resp.body.items)
         IN  IF r.raised THEN Returned(<<>>) ELSE r

aggregate_from_blogs(resp) == Returned(<<>>)

(* mutant: the token is requested before the credentials are looked at *)
HttpCallsNoGuard(name, resp) ==
    CASE name \in {"twitter", "reddit"} ->
           IF resp.creds /\ resp.auth = "ok" THEN <<"auth", "search">>
           ELSE <<"auth">>
      [] name = "news" -> IF ~resp.creds THEN <<>> ELSE <<"search">>
      [] name = "blogs" -> <<>>

(* the HTTP calls an adapter makes, in order: requests.post for the token *)
(* ("auth"), then requests.get for the search                              *)
HttpCalls(name, resp) ==
    CASE name \in {"twitter", "reddit"} ->
           IF ~resp.creds THEN <<>>
           ELSE IF resp.auth # "ok" THEN <<"auth">>
           ELSE <<"auth", "search">>
      [] name = "news" -> IF ~resp.creds THEN <<>> ELSE <<"search">>
      [] name = "blogs" -> <<>>

RunAdapter(name, resp) ==
    CASE name = "twitter" -> aggregate_from_twitter(resp)
      [] name = "reddit"  -> aggregate_from_reddit(resp)
      [] name = "news"    -> aggregate_from_news(resp)
      [] name = "blogs"   -> aggregate_from_blogs(resp)

(***************************************************************************)
(* asyncio.gather over the four adapters, then the flattening loop.        *)
(* resps maps an adapter name to its response.  gather hands back the      *)
(* results in argument order, or re-raises the first exception.            *)
(***************************************************************************)
GatherResults(resps) ==
    [i \in DOMAIN AdapterOrder |-> RunAdapter(AdapterOrder[i], resps[AdapterOrder[i]])]

aggregate_all_sources(resps) ==
    LET results == GatherResults(resps) IN
    IF \E i \in DOMAIN results : results[i].raised THEN Raised
    ELSE Returned(Flatten([i \in DOMAIN results |-> results[i].out]))

(***************************************************************************)
(* Enrichment collaborators.  A scorer outcome is                          *)
(*   [kind |-> "unavailable"]          the model failed to load            *)
(*   [kind |-> "error"]                the call raised                     *)
(*   [kind |-> "label", label, score]  the model answered                  *)
(***************************************************************************)
Lower(label) ==
    CASE label = "POSITIVE" -> "positive"
      [] label = "NEGATIVE" -> "negative"
      [] label = "NEUTRAL"  -> "neutral"
      [] OTHER              -> label

analyze_sentiment(scorer) ==
    IF scorer.kind = "unavailable"
    THEN [sentiment |-> "neutral", confidence |-> FallbackConfidence]
    ELSE IF scorer.kind = "error"
    THEN [sentiment |-> "neutral", confidence |-> FallbackConfidence]
    ELSE LET label == Lower(scorer.label) IN
         [sentiment |-> IF label = "positive" THEN "positive"
                        ELSE IF label = "negative" THEN "negative"
                        ELSE "neutral",
          confidence |-> scorer.score]

get_topic_for_mention(embedder) ==
    IF embedder = "unavailable" THEN "uncategorized"
    ELSE IF embedder = "error" THEN "uncategorized"
    ELSE "general"

(* isoparse(created_at_raw), falling back to utcnow() *)
ParseCreatedAt(created_at_raw, utcnow) ==
    IF created_at_raw = NoTs THEN utcnow
    ELSE IF created_at_raw = BadTs THEN utcnow
    ELSE created_at_raw

(* mutant: an item whose scorers failed is dropped *)
RECURSIVE EnrichArticlesDropFailed(_, _, _, _)
EnrichArticlesDropFailed(articles, scorer, embedder, utcnow) ==
    IF articles = <<>> THEN <<>>
    ELSE LET item == Head(articles)
             content == Strip(item.content)
             rest == EnrichArticlesDropFailed(Tail(articles), scorer, embedder,
                                              utcnow)
             sentiment_result == analyze_sentiment(scorer)
         IN  IF content = <<>> \/ scorer.kind # "label" THEN rest
             ELSE <<[source |-> item.source,
                     content |-> content,
                     sentiment |-> sentiment_result.sentiment,
                     sentiment_score |-> sentiment_result.confidence,
                     topic |-> get_topic_for_mention(embedder),
                     created_at |-> ParseCreatedAt(item.created_at, utcnow)]>>
                  \o rest

(* the loop of ingest_news_mentions over the aggregated articles *)
RECURSIVE EnrichArticles(_, _, _, _)
EnrichArticles(articles, scorer, embedder, utcnow) ==
    IF articles = <<>> THEN <<>>
    ELSE LET item == Head(articles)
             content == Strip(item.content)
             rest == EnrichArticles(Tail(articles), scorer, embedder, utcnow)
             sentiment_result == analyze_sentiment(scorer)
         IN  IF content = <<>> THEN rest
             ELSE <<[source |-> item.source,
                     content |-> content,
                     sentiment |-> sentiment_result.sentiment,
                     sentiment_score |-> sentiment_result.confidence,
                     topic |-> get_topic_for_mention(embedder),
                     created_at |-> ParseCreatedAt(item.created_at, utcnow)]>>
                  \o rest

(***************************************************************************)
(* Anomaly detection over the persisted mentions.                         *)
(***************************************************************************)
DateTruncHour(t) == (t \div TicksPerHour) * TicksPerHour

InWindow(rows, utcnow, window_hours) ==
    {m \in rows : m.created_at >= utcnow - window_hours * TicksPerHour}

(* GROUP BY hour ORDER BY hour: the sorted sequence of [hour, count] *)
RECURSIVE SortedSeq(_)
SortedSeq(S) ==
    IF S = {} THEN <<>>
    ELSE LET lo == CHOOSE x \in S : \A y \in S : x <= y
         IN  <<lo>> \o SortedSeq(S \ {lo})

HourlyCounts(rows) ==
    LET hours == SortedSeq({DateTruncHour(m.created_at) : m \in rows})
    IN  [i \in DOMAIN hours |->
            [hour |-> hours[i],
             count |-> Cardinality({m \in rows :
                                      DateTruncHour(m.created_at) = hours[i]})]]

(* mutant: a count equal to the threshold is reported too *)
ExceedsThresholdInclusive(count, n, S, Q, sigma2) ==
    LET d == n * count - S
        V == n * Q - S * S
    IN  d >= 0 /\ 4 * d * d * (n - 1) >= sigma2 * sigma2 * n * V

(* mutant: the threshold is the mean alone *)
ExceedsThresholdMeanOnly(count, n, S, Q, sigma2) ==
    n * count - S > 0

(* count > mean + sigma * stdev, with sigma = sigma2 / 2, mean = S / n and  *)
(* stdev the sample standard deviation (0 when n = 1), in exact arithmetic: *)
(* d / n > (sigma2 / 2) * sqrt(V / (n * (n - 1))) with d = n * count - S,   *)
(* V = n * Q - S * S.                                                       *)
ExceedsThreshold(count, n, S, Q, sigma2) ==
    LET d == n * count - S
        V == n * Q - S * S
        lhs2 == 4 * d * d * (n - 1)
        rhs2 == sigma2 * sigma2 * n * V
    IN  IF n = 1 THEN d > 0
        ELSE IF sigma2 >= 0 THEN d > 0 /\ lhs2 > rhs2
        ELSE (d >= 0 /\ (d > 0 \/ V > 0)) \/ (d < 0 /\ lhs2 < rhs2)

(* spike_percentage as the fraction pct_num / pct_den (0 / 1 when mean = 0) *)
SpikeFinding(row, n, S) ==
    [timestamp |-> row.hour,
     count |-> row.count,
     baseline_sum |-> S,
     baseline_n |-> n,
     pct_num |-> IF S > 0 THEN (n * row.count - S) * 100 ELSE 0,
     pct_den |-> IF S > 0 THEN S ELSE 1]

detect_spikes(rows, utcnow, sigma2, window_hours, query_ok) ==
    IF ~query_ok THEN <<>>
    ELSE LET results == HourlyCounts(InWindow(rows, utcnow, window_hours))
             counts == [i \in DOMAIN results |-> results[i].count]
             n == Len(counts)
             S == SumSeq(counts)
             Q == SumSqSeq(counts)
             hits == SelectSeq(results,
                        LAMBDA r : ExceedsThreshold(r.count, n, S, Q, sigma2))
         IN  IF results = <<>> THEN <<>>
             ELSE [i \in DOMAIN hits |-> SpikeFinding(hits[i], n, S)]

(***************************************************************************)
(* GET /api/analytics/spikes: the same statistics over daily buckets.  Of  *)
(* a finding the date and the count are kept.                              *)
(***************************************************************************)
DateOf(t) == t \div (24 * TicksPerHour)

DailyCounts(rows) ==
    LET dates == SortedSeq({DateOf(m.created_at) : m \in rows})
    IN  [i \in DOMAIN dates |->
            [date |-> dates[i],
             count |-> Cardinality({m \in rows : DateOf(m.created_at) = dates[i]})]]

analytics_detect_spikes(rows, utcnow, days, sigma2) ==
    LET results == DailyCounts(InWindow(rows, utcnow, 24 * days))
        counts == [i \in DOMAIN results |-> results[i].count]
        n == Len(counts)
        S == SumSeq(counts)
        Q == SumSqSeq(counts)
    IN  IF results = <<>> THEN <<>>
        ELSE SelectSeq(results,
                       LAMBDA r : ExceedsThreshold(r.count, n, S, Q, sigma2))

NoShift == "none"

(* mutant: half of the mentions being negative is a negative shift already *)
detect_sentiment_shiftInclusive(rows, utcnow, window_hours, query_ok) ==
    IF ~query_ok THEN [shift |-> NoShift, negative |-> 0, total |-> 0]
    ELSE LET win == InWindow(rows, utcnow, window_hours)
             cnt(label) == Cardinality({m \in win : m.sentiment = label})
             negative == cnt("negative")
             total == cnt("positive") + cnt("negative") + cnt("neutral")
         IN  [shift |-> IF total = 0 THEN NoShift
                        ELSE IF negative * 100 >= ShiftNegativePct * total
                             THEN "negative"
                        ELSE IF negative * 100 < ShiftPositivePct * total
                             THEN "positive"
                        ELSE "neutral",
              negative |-> negative,
              total |-> total]

detect_sentiment_shift(rows, utcnow, window_hours, query_ok) ==
    IF ~query_ok THEN [shift |-> NoShift, negative |-> 0, total |-> 0]
    ELSE LET win == InWindow(rows, utcnow, window_hours)
             cnt(label) == Cardinality({m \in win : m.sentiment = label})
             negative == cnt("negative")
             total == cnt("positive") + cnt("negative") + cnt("neutral")
         IN  [shift |-> IF total = 0 THEN NoShift
                        ELSE IF negative * 100 > ShiftNegativePct * total
                             THEN "negative"
                        ELSE IF negative * 100 < ShiftPositivePct * total
                             THEN "positive"
                        ELSE "neutral",
              negative |-> negative,
              total |-> total]

(***************************************************************************)
(* State.                                                                  *)
(*   now            the clock (utcnow), in ticks                           *)
(*   mentions       the mentions table, a set of rows                      *)
(*   nextMentionId  the serial of mentions.id                              *)
(*   alerts         the alerts table, a set of rows; resolved_at = NoTime  *)
(*                  is NULL; via records which code path inserted the row  *)
(*   nextAlertId    the serial of alerts.id                                *)
(*   appSettings    "notable" or "row": the app_settings table is missing, *)
(*                  or exists and holds its row                            *)
(*   proc           the ingestion runs, one record per process; scorers    *)
(*                  records whether the scorers failed during the run,     *)
(*                  effective the NewsAPI key the run loaded and used the  *)
(*                  key its news adapter read                              *)
(*   runsStarted    how many runs have been started                        *)
(*   agg            one call of aggregate_all_sources seen task by task:   *)
(*                  the responses it meets, the event loop's ready queue,  *)
(*                  the task the loop's thread is running (0: none), the   *)
(*                  result and the HTTP calls of every finished task, and  *)
(*                  the final list                                         *)
(*   probe          the last direct call of a detector, of                 *)
(*                  create_spike_alert or of list_alerts: its parameters   *)
(*                  and what it returned                                   *)
(*   conf           the NewsAPI key: row is app_settings.news_api_key (""  *)
(*                  when NULL, empty or no row), settings is               *)
(*                  settings.news_api_key, the attribute of the process's  *)
(*                  global settings object                                 *)
(***************************************************************************)
VARIABLES now, mentions, nextMentionId, alerts, nextAlertId, appSettings,
          proc, runsStarted, agg, probe, conf

vars == <<now, mentions, nextMentionId, alerts, nextAlertId, appSettings,
          proc, runsStarted, agg, probe, conf>>

pipelineVars == <<now, mentions, nextMentionId, alerts, nextAlertId,
                  appSettings, proc, runsStarted, probe, conf>>

InitialNow == 38 * TicksPerHour


IdleProc ==
    [pc |-> "idle", articles |-> <<>>, staged |-> <<>>, created_count |-> 0,
     findings |-> <<>>, shift |-> [shift |-> NoShift, negative |-> 0, total |-> 0],
     result |-> "none", failed_at |-> "none", inserted |-> {},
     checks |-> "not_run", run_alerts |-> {}, aggregated |-> "none",
     before |-> {}, spikes_seen |-> 0, shift_seen |-> "unseen",
     scorers |-> "none", effective |-> "unset", used |-> "unset"]

(* news_api_key: str = "" *)
StaticConf == [row |-> "", settings |-> ""]

(* no aggregation under way *)
IdleAgg ==
    [pc |-> "idle", resps |-> <<>>, queue |-> <<>>, running |-> 0,
     results |-> [i \in {} |-> Raised], calls |-> [i \in {} |-> <<>>],
     out |-> <<>>]

(* no detector has been called *)
IdleProbe ==
    [op |-> "none", sigma2 |-> 0, query_ok |-> TRUE, calls |-> 0,
     repeated |-> FALSE, at |-> 0, arg |-> 0, spikes |-> <<>>,
     shift |-> [shift |-> NoShift, negative |-> 0, total |-> 0],
     is_active |-> "none", alert_type |-> "", limit |-> 0,
     listed |-> [raised |-> FALSE, out |-> <<>>]]

(* Mention histories the table can hold before the runs of the model start: *)
(* one mention in each of the hours 30 .. 30 + k - 1, all inside the        *)
(* look-back window, plus one old mention outside of it.                    *)
HistoryRow(i, hour, sentiment) ==
    [id |-> i, source |-> "news", content |-> <<"a">>, sentiment |-> sentiment,
     sentiment_score |-> 90, topic |-> "general",
     created_at |-> hour * TicksPerHour]

QuietHistory ==
    {HistoryRow(1, 1, "neutral")}
    \cup {HistoryRow(i + 1, 29 + i, "neutral") : i \in 1..8}

SpikingHistory ==
    QuietHistory \cup {HistoryRow(10, 38, "negative"), HistoryRow(11, 38, "negative")}

Histories == {{}, QuietHistory, SpikingHistory}

Init ==
    /\ now = InitialNow
    /\ mentions \in Histories
    /\ nextMentionId = Cardinality(mentions) + 1
    /\ alerts = {}
    /\ nextAlertId = 1
    /\ appSettings = "notable"
    /\ proc = [r \in Procs |-> IdleProc]
    /\ runsStarted = 0
    /\ agg = IdleAgg
    /\ probe = IdleProbe
    /\ conf = StaticConf

Tick ==
    /\ now < MaxTime
    /\ now' = now + 1
    /\ UNCHANGED <<mentions, nextMentionId, alerts, nextAlertId, appSettings,
                   proc, runsStarted, agg, probe, conf>>

(***************************************************************************)
(* What the remote sources may answer to a run at time t.                  *)
(***************************************************************************)
Resp(creds, auth, search, body) ==
    [creds |-> creds, auth |-> auth, search |-> search, body |-> body]

NoResp == Resp(FALSE, "ok", "ok", Body(<<>>))

TwitterResps(t) ==
    { NoResp,
      Resp(TRUE, "error", "ok", Body(<<>>)),
      Resp(TRUE, "ok", "ok", Body(<<Item(<<>>, <<" ", "a">>, BadTs),
                                    Item(<<>>, <<" ">>, BadTs)>>)),
      Resp(TRUE, "ok", "ok", BadBody) }

RedditResps(t) ==
    { NoResp,
      Resp(TRUE, "ok", "ok", Body(<<Item(<<"b">>, <<>>, t - TicksPerHour)>>)) }

NewsResps(t) ==
    { NoResp,
      Resp(TRUE, "ok", "error", Body(<<>>)),
      Resp(TRUE, "ok", "ok", Body(<<Item(<<"a">>, <<>>, t)>>)) }

(* the runs of the pipeline meet a Reddit without credentials *)
PipelineResps(t) ==
    { [twitter |-> tw, reddit |-> NoResp, news |-> nw, blogs |-> NoResp] :
        tw \in TwitterResps(t), nw \in NewsResps(t) }

Scorer(kind, label, score) == [kind |-> kind, label |-> label, score |-> score]

(* what the two scorers do during one run: <<sentiment scorer, embedder>> *)
EnrichOutcomes ==
    { <<Scorer("unavailable", "", 0), "unavailable">>,
      <<Scorer("error", "", 0), "error">>,
      <<Scorer("label", "NEGATIVE", 90), "ok">> }

(***************************************************************************)
(* One ingestion run (run_ingestion -> ingest_news_mentions).              *)
(***************************************************************************)
(* the coroutine returns (result "ok") or raises (result "failed"); its    *)
(* locals are gone                                                        *)
Finish(p, result, failed_at) ==
    [p EXCEPT !.pc = "done", !.result = result, !.failed_at = failed_at,
              !.articles = <<>>, !.staged = <<>>, !.findings = <<>>,
              !.shift = IdleProc.shift]

Busy(r) == proc[r].pc \notin {"idle", "done"}

(* load_effective_settings and the choice of the query.  exclusive = TRUE  *)
(* starts the run only while no other run is in progress.                  *)
StartRun(r, exclusive) ==
    /\ ~Busy(r)
    /\ \A q \in Procs : q < r => proc[q].pc # "idle"
    /\ exclusive => r = 1
    /\ runsStarted < MaxRuns
    /\ exclusive => \A q \in Procs : ~Busy(q)
    /\ runsStarted' = runsStarted + 1
    /\ \E has_query \in BOOLEAN :
         LET fresh == [IdleProc EXCEPT !.before = mentions] IN
         proc' = [proc EXCEPT ![r] =
                    IF appSettings = "notable"
                    THEN Finish(fresh, "failed", "settings")
                    ELSE IF ~has_query THEN Finish(fresh, "ok", "none")
                    ELSE [fresh EXCEPT !.pc = "aggregate"]]
    /\ UNCHANGED <<now, mentions, nextMentionId, alerts, nextAlertId,
                   appSettings, agg, probe, conf>>

(* mutant: no early return on an empty aggregation *)
AfterAggregateNoEarlyReturn(p, res) ==
    IF res.raised
    THEN Finish([p EXCEPT !.aggregated = "raised"], "failed", "aggregate")
    ELSE IF res.out = <<>>
    THEN [p EXCEPT !.pc = "checks", !.aggregated = "empty"]
    ELSE [p EXCEPT !.pc = "enrich", !.articles = res.out,
                   !.aggregated = "nonempty"]

(* articles = await aggregate_all_sources(query); if not articles: return *)
AfterAggregate(p, res) ==
    IF res.raised
    THEN Finish([p EXCEPT !.aggregated = "raised"], "failed", "aggregate")
    ELSE IF res.out = <<>>
    THEN Finish([p EXCEPT !.aggregated = "empty"], "ok", "none")
    ELSE [p EXCEPT !.pc = "enrich", !.articles = res.out,
                   !.aggregated = "nonempty"]

Aggregate(r) ==
    /\ proc[r].pc = "aggregate"
    /\ \E resps \in PipelineResps(now) :
         proc' = [proc EXCEPT ![r] =
                    AfterAggregate(@, aggregate_all_sources(resps))]
    /\ UNCHANGED <<now, mentions, nextMentionId, alerts, nextAlertId,
                   appSettings, runsStarted, agg, probe, conf>>

(* the enrichment loop (db.add for every item with content), then        *)
(* "if created_count:" decides whether there is anything to commit        *)
AfterEnrich(p, staged) ==
    IF Len(staged) = 0
    THEN Finish([p EXCEPT !.created_count = 0], "ok", "none")
    ELSE [p EXCEPT !.pc = "commit", !.staged = staged,
                   !.created_count = Len(staged)]

(* both scorers failed (model not loaded, or the call raised), or both    *)
(* answered                                                                *)
ScorersOutcome(o) ==
    IF o[1].kind # "label" /\ o[2] # "ok" THEN "failed" ELSE "ok"

(* at = "enrich": the loop as one step; at = "scoring": the step on which *)
(* the pending scorer call answers                                        *)
EnrichFrom(r, at) ==
    /\ proc[r].pc = at
    /\ \E o \in EnrichOutcomes :
         proc' = [proc EXCEPT ![r] =
                    [AfterEnrich(@, EnrichArticles(proc[r].articles, o[1],
                                                   o[2], now))
                       EXCEPT !.scorers = ScorersOutcome(o)]]
    /\ UNCHANGED <<now, mentions, nextMentionId, alerts, nextAlertId,
                   appSettings, runsStarted, agg, probe, conf>>

Enrich(r) == EnrichFrom(r, "enrich")

(* rows the commit writes: the staged mentions with fresh serial ids *)
StagedRows(staged, first_id) ==
    { [id |-> first_id + i - 1,
       source |-> staged[i].source,
       content |-> staged[i].content,
       sentiment |-> staged[i].sentiment,
       sentiment_score |-> staged[i].sentiment_score,
       topic |-> staged[i].topic,
       created_at |-> staged[i].created_at] : i \in DOMAIN staged }

(* mutant: a failing commit leaves the first row of the batch behind *)
CommitBatchPartial(r, store_ok) ==
    IF store_ok
    THEN /\ mentions' = mentions \cup StagedRows(proc[r].staged, nextMentionId)
         /\ nextMentionId' = nextMentionId + Len(proc[r].staged)
         /\ proc' = [proc EXCEPT ![r] =
                       [@ EXCEPT !.pc = "checks",
                                 !.inserted = nextMentionId ..
                                     (nextMentionId + Len(proc[r].staged) - 1)]]
    ELSE /\ mentions' = mentions
                          \cup StagedRows(<<Head(proc[r].staged)>>, nextMentionId)
         /\ nextMentionId' = nextMentionId + 1
         /\ proc' = [proc EXCEPT ![r] = Finish(@, "failed", "commit")]

(* mutant: the run returns right after its commit *)
CommitBatchNoChecks(r, store_ok) ==
    IF store_ok
    THEN /\ mentions' = mentions \cup StagedRows(proc[r].staged, nextMentionId)
         /\ nextMentionId' = nextMentionId + Len(proc[r].staged)
         /\ proc' = [proc EXCEPT ![r] =
                       Finish([@ EXCEPT !.inserted = nextMentionId ..
                                     (nextMentionId + Len(proc[r].staged) - 1)],
                              "ok", "none")]
    ELSE /\ mentions' = mentions
         /\ nextMentionId' = nextMentionId
         /\ proc' = [proc EXCEPT ![r] = Finish(@, "failed", "commit")]

(* db.commit() of the batch: all rows, or an exception and db.rollback() *)
CommitBatch(r, store_ok) ==
    IF store_ok
    THEN /\ mentions' = mentions \cup StagedRows(proc[r].staged, nextMentionId)
         /\ nextMentionId' = nextMentionId + Len(proc[r].staged)
         /\ proc' = [proc EXCEPT ![r] =
                       [@ EXCEPT !.pc = "checks",
                                 !.inserted = nextMentionId ..
                                     (nextMentionId + Len(proc[r].staged) - 1)]]
    ELSE /\ mentions' = mentions
         /\ nextMentionId' = nextMentionId
         /\ proc' = [proc EXCEPT ![r] = Finish(@, "failed", "commit")]

Commit(r) ==
    /\ proc[r].pc = "commit"
    /\ \E store_ok \in BOOLEAN : CommitBatch(r, store_ok)
    /\ UNCHANGED <<now, alerts, nextAlertId, appSettings, runsStarted, agg, probe, conf>>

(***************************************************************************)
(* Alerts.                                                                 *)
(***************************************************************************)
ActiveOfType(rows, alert_type) ==
    {a \in rows : a.alert_type = alert_type /\ a.is_active = 1}

(* Alert(...) with the column defaults: is_active = 1, resolved_at NULL *)
AlertRow(id, alert_type, severity, created_at, via) ==
    [id |-> id, alert_type |-> alert_type, severity |-> severity,
     is_active |-> 1, created_at |-> created_at, resolved_at |-> NoTime,
     via |-> via]

(* mutant: a deviation of exactly 100 percent is high already *)
SpikeSeverityInclusive(spike_data) ==
    IF spike_data.pct_num >= SpikeHighPct * spike_data.pct_den
    THEN "high" ELSE "medium"

SpikeSeverity(spike_data) ==
    IF spike_data.pct_num > SpikeHighPct * spike_data.pct_den
    THEN "high" ELSE "medium"

(* create_spike_alert: insert and commit, or roll back and return None *)
create_spike_alert(rows, id, spike_data, utcnow, store_ok) ==
    IF store_ok
    THEN rows \cup {AlertRow(id, "spike", SpikeSeverity(spike_data), utcnow,
                             "manager")}
    ELSE rows

(* mutant: every sentiment_shift alert is of medium severity *)
ShiftSeverityAlwaysMedium(finding) == "medium"

ShiftSeverity(finding) ==
    IF finding.negative * 100 > ShiftHighPct * finding.total
    THEN "high" ELSE "medium"

create_shift_alert(rows, id, finding, utcnow, store_ok) ==
    IF store_ok
    THEN rows \cup {AlertRow(id, "sentiment_shift", ShiftSeverity(finding),
                             utcnow, "manager")}
    ELSE rows

(***************************************************************************)
(* run_basic_alert_checks(db), called by the run after its commit: spike   *)
(* detection, one alert per finding unless an active alert of the type     *)
(* exists, then the same for a negative sentiment shift.  The look-up of   *)
(* the active alert and the insert are two statements.                     *)
(***************************************************************************)
SpikeDetect(r) ==
    /\ proc[r].pc = "checks"
    /\ \E query_ok \in BOOLEAN :
         LET findings == detect_spikes(mentions, now, DefaultSigmaTimes2,
                                       DefaultWindowHours, query_ok) IN
         proc' = [proc EXCEPT ![r] =
                    [@ EXCEPT !.pc = "spike_alerts", !.checks = "running",
                              !.findings = findings,
                              !.spikes_seen = Len(findings)]]
    /\ UNCHANGED <<now, mentions, nextMentionId, alerts, nextAlertId,
                   appSettings, runsStarted, agg, probe, conf>>

(* mutant: no look-up, every finding is inserted *)
SpikeDedupNoLookup(p, rows) ==
    IF p.findings = <<>> THEN [p EXCEPT !.pc = "shift_detect"]
    ELSE [p EXCEPT !.pc = "spike_insert"]

(* mutant: without spike findings the checks end, the sentiment check is *)
(* not run                                                                *)
SpikeDedupSkipShift(p, rows) ==
    IF p.findings = <<>>
    THEN Finish([p EXCEPT !.checks = "finished"], "ok", "none")
    ELSE IF ActiveOfType(rows, "spike") # {}
    THEN [p EXCEPT !.findings = Tail(@)]
    ELSE [p EXCEPT !.pc = "spike_insert"]

(* the dedup look-up for the next finding *)
SpikeDedup(p, rows) ==
    IF p.findings = <<>> THEN [p EXCEPT !.pc = "shift_detect"]
    ELSE IF ActiveOfType(rows, "spike") # {}
    THEN [p EXCEPT !.findings = Tail(@)]
    ELSE [p EXCEPT !.pc = "spike_insert"]

SpikeLookup(r) ==
    /\ proc[r].pc = "spike_alerts"
    /\ proc' = [proc EXCEPT ![r] = SpikeDedup(@, alerts)]
    /\ UNCHANGED <<now, mentions, nextMentionId, alerts, nextAlertId,
                   appSettings, runsStarted, agg, probe, conf>>

SpikeInsert(r) ==
    /\ proc[r].pc = "spike_insert"
    /\ \E store_ok \in BOOLEAN :
         /\ alerts' = create_spike_alert(alerts, nextAlertId,
                                         Head(proc[r].findings), now, store_ok)
         /\ nextAlertId' = IF store_ok THEN nextAlertId + 1 ELSE nextAlertId
         /\ proc' = [proc EXCEPT ![r] =
                       [@ EXCEPT !.pc = "spike_alerts",
                                 !.findings = Tail(@),
                                 !.run_alerts = IF store_ok
                                                THEN @ \cup {nextAlertId}
                                                ELSE @]]
    /\ UNCHANGED <<now, mentions, nextMentionId, appSettings, runsStarted, agg, probe, conf>>

ShiftDedup(p, finding, rows) ==
    IF finding.shift = "negative" /\ ActiveOfType(rows, "sentiment_shift") = {}
    THEN [p EXCEPT !.pc = "shift_insert", !.shift = finding,
                   !.shift_seen = finding.shift]
    ELSE Finish([p EXCEPT !.checks = "finished", !.shift = finding,
                          !.shift_seen = finding.shift],
                "ok", "none")

ShiftDetect(r) ==
    /\ proc[r].pc = "shift_detect"
    /\ \E query_ok \in BOOLEAN :
         proc' = [proc EXCEPT ![r] =
                    ShiftDedup(@, detect_sentiment_shift(mentions, now,
                                      DefaultWindowHours, query_ok), alerts)]
    /\ UNCHANGED <<now, mentions, nextMentionId, alerts, nextAlertId,
                   appSettings, runsStarted, agg, probe, conf>>

ShiftInsert(r) ==
    /\ proc[r].pc = "shift_insert"
    /\ \E store_ok \in BOOLEAN :
         /\ alerts' = create_shift_alert(alerts, nextAlertId, proc[r].shift,
                                         now, store_ok)
         /\ nextAlertId' = IF store_ok THEN nextAlertId + 1 ELSE nextAlertId
         /\ proc' = [proc EXCEPT ![r] =
                       Finish([@ EXCEPT !.checks = "finished",
                                        !.run_alerts = IF store_ok
                                                       THEN @ \cup {nextAlertId}
                                                       ELSE @],
                              "ok", "none")]
    /\ UNCHANGED <<now, mentions, nextMentionId, appSettings, runsStarted, agg, probe, conf>>

(***************************************************************************)
(* The alerts API.                                                         *)
(***************************************************************************)
ApiAlertTypes == {"spike", "trend"}
ApiSeverities == {"low"}

AlertById(rows, alert_id) == {a \in rows : a.id = alert_id}

(* POST /api/alerts *)
create_alert(alert_type, severity) ==
    /\ nextAlertId <= MaxAlerts
    /\ \E store_ok \in BOOLEAN :
         IF store_ok
         THEN /\ alerts' = alerts \cup {AlertRow(nextAlertId, alert_type,
                                                 severity, now, "api")}
              /\ nextAlertId' = nextAlertId + 1
         ELSE UNCHANGED <<alerts, nextAlertId>>
    /\ UNCHANGED <<now, mentions, nextMentionId, appSettings, proc, runsStarted, agg, probe, conf>>

(* mutant: resolve stamps resolved_at and leaves the alert active *)
ResolvedStillActive(alert, utcnow) ==
    [alert EXCEPT !.resolved_at = utcnow]

(* mutant: resolve clears is_active and sets no resolved_at *)
ResolvedNoTimestamp(alert, utcnow) ==
    [alert EXCEPT !.is_active = 0]

(* mutant: resolving a resolved alert makes it active again *)
ResolvedToggle(alert, utcnow) ==
    [alert EXCEPT !.is_active = 1 - @, !.resolved_at = utcnow]

(* the row as resolve_alert leaves it *)
Resolved(alert, utcnow) ==
    [alert EXCEPT !.is_active = 0, !.resolved_at = utcnow]

(* PUT /api/alerts/{alert_id}/resolve *)
resolve_alert(alert_id) ==
    /\ LET found == AlertById(alerts, alert_id) IN
       IF found = {}
       THEN alerts' = alerts
       ELSE LET alert == CHOOSE a \in found : TRUE
            IN  alerts' = (alerts \ {alert}) \cup {Resolved(alert, now)}
    /\ UNCHANGED <<now, mentions, nextMentionId, nextAlertId, appSettings,
                   proc, runsStarted, agg, probe, conf>>

(* DELETE /api/alerts/{alert_id} *)
delete_alert(alert_id) ==
    /\ LET found == AlertById(alerts, alert_id) IN
       IF found = {}
       THEN alerts' = alerts
       ELSE alerts' = alerts \ found
    /\ UNCHANGED <<now, mentions, nextMentionId, nextAlertId, appSettings,
                   proc, runsStarted, agg, probe, conf>>

(***************************************************************************)
(* GET /api/alerts.  is_active is "none" (parameter absent), "true" or     *)
(* "false"; alert_type "" stands for an absent or empty parameter.  ORDER  *)
(* BY created_at DESC leaves the order of rows with equal created_at to    *)
(* the database, so the query has a set of possible answers; a negative    *)
(* LIMIT is an error of the database and the handler raises.               *)
(***************************************************************************)
FilterAlerts(rows, is_active, alert_type) ==
    {a \in rows :
        /\ is_active # "none" => a.is_active = (IF is_active = "true" THEN 1 ELSE 0)
        /\ alert_type # "" => a.alert_type = alert_type}

(* mutant: oldest first *)
RECURSIVE OrderByCreatedAtAsc(_)
OrderByCreatedAtAsc(rows) ==
    IF rows = {} THEN {<<>>}
    ELSE UNION { { <<a>> \o t : t \in OrderByCreatedAtAsc(rows \ {a}) } :
                   a \in {x \in rows : \A y \in rows :
                                          x.created_at <= y.created_at} }

RECURSIVE OrderByCreatedAtDesc(_)
OrderByCreatedAtDesc(rows) ==
    IF rows = {} THEN {<<>>}
    ELSE UNION { { <<a>> \o t : t \in OrderByCreatedAtDesc(rows \ {a}) } :
                   a \in {x \in rows : \A y \in rows :
                                          x.created_at >= y.created_at} }

Limit(seq, limit) ==
    SubSeq(seq, 1, IF Len(seq) < limit THEN Len(seq) ELSE limit)

list_alerts(is_active, alert_type, limit) ==
    /\ probe.calls < MaxCalls
    /\ \E ordered \in OrderByCreatedAtDesc(FilterAlerts(alerts, is_active,
                                                        alert_type)) :
         probe' = [IdleProbe EXCEPT
                     !.op = "list_alerts", !.calls = probe.calls + 1,
                     !.at = now, !.is_active = is_active,
                     !.alert_type = alert_type, !.limit = limit,
                     !.listed = IF limit < 0 THEN Raised
                                ELSE Returned(Limit(ordered, limit))]
    /\ UNCHANGED <<now, mentions, nextMentionId, alerts, nextAlertId,
                   appSettings, proc, runsStarted, agg, conf>>

(***************************************************************************)
(* PUT /api/settings creates the app_settings table on first use and       *)
(* writes its single row.                                                  *)
(***************************************************************************)
update_settings ==
    /\ appSettings' = "row"
    /\ UNCHANGED <<now, mentions, nextMentionId, alerts, nextAlertId, proc,
                   runsStarted, agg, probe, conf>>

(***************************************************************************)
(* Specifications.  In Spec the runs follow one another (the dashboard     *)
(* triggers them one at a time) while the API is used at any moment.       *)
(* SpecOverlap lets the runs of two processes overlap.                     *)
(***************************************************************************)
AlertIds == 1..(MaxAlerts + 1)

RunStep(r) ==
    \/ Aggregate(r)
    \/ Enrich(r)
    \/ Commit(r)
    \/ SpikeDetect(r)
    \/ SpikeLookup(r)
    \/ SpikeInsert(r)
    \/ ShiftDetect(r)
    \/ ShiftInsert(r)

ApiStep ==
    \/ \E t \in ApiAlertTypes, s \in ApiSeverities : create_alert(t, s)
    \/ \E i \in AlertIds : resolve_alert(i)
    \/ \E i \in AlertIds : delete_alert(i)
    \/ update_settings

Next ==
    \/ Tick
    \/ \E r \in Procs : StartRun(r, TRUE)
    \/ \E r \in Procs : RunStep(r)
    \/ ApiStep

Spec == Init /\ [][Next]_vars

InitOverlap ==
    /\ Init
    /\ mentions \in {{}, SpikingHistory}

NextOverlap ==
    \/ \E r \in Procs : StartRun(r, FALSE)
    \/ \E r \in Procs : RunStep(r)
    \/ update_settings

SpecOverlap == InitOverlap /\ [][NextOverlap]_vars

(* the runs on their own, one after the other, at one instant *)
NextRuns ==
    \/ \E r \in Procs : StartRun(r, TRUE)
    \/ \E r \in Procs : RunStep(r)
    \/ update_settings

SpecRuns == Init /\ [][NextRuns]_vars

(***************************************************************************)
(* Termination.  The run seen with its scorer call as a call and a return: *)
(* sentiment_pipeline(text) and embedding_model.encode(text) are plain     *)
(* calls without a timeout, so the run is at "scoring" until the library   *)
(* answers, and nothing in the code makes it answer.  Every other step is  *)
(* taken once it is enabled: the HTTP calls of the adapters carry          *)
(* timeout=10 or timeout=15 and a timeout is an exception like any other   *)
(* (search = "error"), and the statements of the store are taken to answer. *)
(***************************************************************************)
ScoringCall(r) ==
    /\ proc[r].pc = "enrich"
    /\ proc' = [proc EXCEPT ![r] = [@ EXCEPT !.pc = "scoring"]]
    /\ UNCHANGED <<now, mentions, nextMentionId, alerts, nextAlertId,
                   appSettings, runsStarted, agg, probe, conf>>

ScoringReturn(r) == EnrichFrom(r, "scoring")

BoundedStep(r) ==
    \/ Aggregate(r)
    \/ ScoringCall(r)
    \/ Commit(r)
    \/ SpikeDetect(r)
    \/ SpikeLookup(r)
    \/ SpikeInsert(r)
    \/ ShiftDetect(r)
    \/ ShiftInsert(r)

NextLive ==
    \/ \E r \in Procs : StartRun(r, TRUE)
    \/ \E r \in Procs : BoundedStep(r)
    \/ \E r \in Procs : ScoringReturn(r)
    \/ update_settings

SpecLive ==
    Init /\ [][NextLive]_vars /\ WF_vars(\E r \in Procs : BoundedStep(r))

(***************************************************************************)
(* The enrichment loop on its own: a run that has aggregated a non-empty   *)
(* list of articles, whatever their content and timestamps, enriches and   *)
(* commits it.                                                             *)
(***************************************************************************)
ArticleContents == {<<"a">>, <<" ">>, <<>>, <<" ", "a", " ">>}
ArticleTimestamps == {NoTs, BadTs, InitialNow - TicksPerHour}

Articles ==
    { [source |-> "news", content |-> c, created_at |-> t] :
        c \in ArticleContents, t \in ArticleTimestamps }

ArticleLists ==
    { <<a>> : a \in Articles } \cup { <<a, b>> : a \in Articles, b \in Articles }

InitEnrich ==
    /\ now = InitialNow
    /\ mentions = {}
    /\ nextMentionId = 1
    /\ alerts = {}
    /\ nextAlertId = 1
    /\ appSettings = "row"
    /\ runsStarted = 1
    /\ agg = IdleAgg
    /\ probe = IdleProbe
    /\ conf = StaticConf
    /\ \E articles \in ArticleLists :
         proc = [r \in Procs |->
                   IF r = 1
                   THEN [IdleProc EXCEPT !.pc = "enrich", !.articles = articles,
                                         !.aggregated = "nonempty"]
                   ELSE IdleProc]

NextEnrich == \E r \in Procs : Enrich(r) \/ Commit(r)

SpecEnrich == InitEnrich /\ [][NextEnrich]_vars

(***************************************************************************)
(* The detectors and create_spike_alert called directly on a mentions      *)
(* table, whatever it holds.  The tables put k mentions into each of four  *)
(* hours of the look-back window (the first of them on its edge), and one  *)
(* mention just before the window, on the same day as the first hour; or   *)
(* they put mentions of every sentiment into the last hour.                *)
(***************************************************************************)
NowHour == InitialNow \div TicksPerHour

ProbeRow(id, tick, sentiment) ==
    [id |-> id, source |-> "news", content |-> <<"a">>, sentiment |-> sentiment,
     sentiment_score |-> 90, topic |-> "general", created_at |-> tick]

BucketRows(base, hour, count, sentiment) ==
    { ProbeRow(base + k, hour * TicksPerHour + ((k + 1) % TicksPerHour),
               sentiment) : k \in 1..count }

OldRows(count) ==
    { ProbeRow(k, (NowHour - DefaultWindowHours) * TicksPerHour - 1, "neutral") :
        k \in 1..count }

CountTable(old, c1, c2, c3, c4) ==
    OldRows(old)
    \cup BucketRows(100, NowHour - DefaultWindowHours, c1, "neutral")
    \cup BucketRows(200, NowHour - 8, c2, "neutral")
    \cup BucketRows(300, NowHour - 2, c3, "neutral")
    \cup BucketRows(400, NowHour - 1, c4, "neutral")

CountTables ==
    { CountTable(old, c1, c2, c3, c4) :
        old \in 0..1, c1 \in 0..1, c2 \in 0..2, c3 \in 0..3, c4 \in 0..4 }

DistTable(positive, negative, neutral, other) ==
    BucketRows(100, NowHour - 1, positive, "positive")
    \cup BucketRows(200, NowHour - 1, negative, "negative")
    \cup BucketRows(300, NowHour - 1, neutral, "neutral")
    \cup BucketRows(400, NowHour - 1, other, "mixed")

DistTables ==
    { DistTable(positive, negative, neutral, other) :
        positive \in 0..2, negative \in 0..3, neutral \in 0..2, other \in 0..1 }

(* six hours of 10 mentions and one of 100 *)
ExampleCounts == <<10, 10, 10, 10, 10, 10, 100>>

ExampleTable ==
    UNION { BucketRows(1000 * i, NowHour - 8 + i, ExampleCounts[i], "neutral") :
              i \in DOMAIN ExampleCounts }

(* 10 positive, 60 negative and 30 neutral mentions *)
ExampleDist == DistTable(10, 60, 30, 0)

ProbeTables == CountTables \cup DistTables \cup {ExampleTable, ExampleDist}

ProbeSigmas == {0, 2, 4, 5}
AnalyticsSigmas == {1, 5}

InitDetect ==
    /\ now = InitialNow
    /\ mentions \in ProbeTables
    /\ nextMentionId = 1
    /\ alerts = {}
    /\ nextAlertId = 1
    /\ appSettings = "row"
    /\ proc = [r \in Procs |-> IdleProc]
    /\ runsStarted = 0
    /\ agg = IdleAgg
    /\ probe = IdleProbe
    /\ conf = StaticConf

(* mutant: the detector also deletes the mentions older than its window *)
CallDetectSpikesPruning(sigma2, query_ok) ==
    /\ probe.calls < MaxCalls
    /\ probe' = [IdleProbe EXCEPT
                   !.op = "detect_spikes", !.sigma2 = sigma2,
                   !.query_ok = query_ok, !.calls = probe.calls + 1,
                   !.repeated = (probe.op = "detect_spikes"
                                 /\ probe.sigma2 = sigma2
                                 /\ probe.query_ok = query_ok),
                   !.at = now,
                   !.spikes = detect_spikes(mentions, now, sigma2,
                                            DefaultWindowHours, query_ok)]
    /\ mentions' = InWindow(mentions, now, DefaultWindowHours)
    /\ UNCHANGED <<now, nextMentionId, alerts, nextAlertId, appSettings,
                   proc, runsStarted, agg, conf>>

(* await detect_spikes(db, threshold_sigma) *)
CallDetectSpikes(sigma2, query_ok) ==
    /\ probe.calls < MaxCalls
    /\ probe' = [IdleProbe EXCEPT
                   !.op = "detect_spikes", !.sigma2 = sigma2,
                   !.query_ok = query_ok, !.calls = probe.calls + 1,
                   !.repeated = (probe.op = "detect_spikes"
                                 /\ probe.sigma2 = sigma2
                                 /\ probe.query_ok = query_ok),
                   !.at = now,
                   !.spikes = detect_spikes(mentions, now, sigma2,
                                            DefaultWindowHours, query_ok)]
    /\ UNCHANGED <<now, mentions, nextMentionId, alerts, nextAlertId,
                   appSettings, proc, runsStarted, agg, conf>>

(* GET /api/analytics/spikes?threshold_sigma=... *)
CallAnalyticsSpikes(sigma2) ==
    /\ probe.calls < MaxCalls
    /\ probe' = [IdleProbe EXCEPT
                   !.op = "analytics_spikes", !.sigma2 = sigma2,
                   !.calls = probe.calls + 1,
                   !.repeated = (probe.op = "analytics_spikes"
                                 /\ probe.sigma2 = sigma2),
                   !.at = now,
                   !.spikes = analytics_detect_spikes(mentions, now,
                                                      DefaultDays, sigma2)]
    /\ UNCHANGED <<now, mentions, nextMentionId, alerts, nextAlertId,
                   appSettings, proc, runsStarted, agg, conf>>

(* await detect_sentiment_shift(db) *)
CallDetectShift(query_ok) ==
    /\ probe.calls < MaxCalls
    /\ probe' = [IdleProbe EXCEPT
                   !.op = "detect_sentiment_shift", !.query_ok = query_ok,
                   !.calls = probe.calls + 1,
                   !.repeated = (probe.op = "detect_sentiment_shift"
                                 /\ probe.query_ok = query_ok),
                   !.at = now,
                   !.shift = detect_sentiment_shift(mentions, now,
                                                    DefaultWindowHours, query_ok)]
    /\ UNCHANGED <<now, mentions, nextMentionId, alerts, nextAlertId,
                   appSettings, proc, runsStarted, agg, conf>>

(* await create_spike_alert(db, spikes[k]) with a finding of the last call *)
CallCreateSpikeAlert(k, store_ok) ==
    /\ probe.op \in {"detect_spikes", "create_spike_alert"}
    /\ k \in DOMAIN probe.spikes
    /\ nextAlertId <= MaxAlerts
    /\ probe' = [probe EXCEPT !.op = "create_spike_alert", !.arg = k]
    /\ alerts' = create_spike_alert(alerts, nextAlertId, probe.spikes[k], now,
                                    store_ok)
    /\ nextAlertId' = IF store_ok THEN nextAlertId + 1 ELSE nextAlertId
    /\ UNCHANGED <<now, mentions, nextMentionId, appSettings, proc,
                   runsStarted, agg, conf>>

NextDetect ==
    \/ \E sigma2 \in ProbeSigmas, query_ok \in BOOLEAN :
          CallDetectSpikes(sigma2, query_ok)
    \/ \E sigma2 \in AnalyticsSigmas : CallAnalyticsSpikes(sigma2)
    \/ \E query_ok \in BOOLEAN : CallDetectShift(query_ok)
    \/ \E k \in 1..4, store_ok \in BOOLEAN : CallCreateSpikeAlert(k, store_ok)

SpecDetect == InitDetect /\ [][NextDetect]_vars

(***************************************************************************)
(* The mentions API next to an ingestion run.  A request body carries      *)
(* any strings: "" stands for an absent or empty field of MentionUpdate.   *)
(***************************************************************************)
MentionIds == 1..MaxMentions
MentionContents == {<<"a">>, <<>>}
UpdateSentiments == {"", "positive", "angry"}
UpdateTopics == {"", "pricing"}

(* POST /api/mentions: score, insert, commit; on an exception roll back *)
create_mention(content, o, store_ok) ==
    /\ nextMentionId <= MaxMentions
    /\ LET sentiment_result == analyze_sentiment(o[1])
           db_mention == [id |-> nextMentionId,
                          source |-> "api",
                          content |-> content,
                          sentiment |-> sentiment_result.sentiment,
                          sentiment_score |-> sentiment_result.confidence,
                          topic |-> get_topic_for_mention(o[2]),
                          created_at |-> now]
       IN  IF store_ok
           THEN /\ mentions' = mentions \cup {db_mention}
                /\ nextMentionId' = nextMentionId + 1
           ELSE UNCHANGED <<mentions, nextMentionId>>
    /\ UNCHANGED <<now, alerts, nextAlertId, appSettings, proc, runsStarted,
                   agg, probe, conf>>

(* PUT /api/mentions/{mention_id} *)
update_mention(mention_id, sentiment, topic) ==
    /\ LET found == {m \in mentions : m.id = mention_id} IN
       IF found = {}
       THEN mentions' = mentions
       ELSE LET mention == CHOOSE m \in found : TRUE IN
            mentions' = (mentions \ {mention}) \cup
                {[mention EXCEPT
                    !.sentiment = IF sentiment # "" THEN sentiment ELSE @,
                    !.topic = IF topic # "" THEN topic ELSE @]}
    /\ UNCHANGED <<now, nextMentionId, alerts, nextAlertId, appSettings, proc,
                   runsStarted, agg, probe, conf>>

(* DELETE /api/mentions/{mention_id} *)
delete_mention(mention_id) ==
    /\ mentions' = {m \in mentions : m.id # mention_id}
    /\ UNCHANGED <<now, nextMentionId, alerts, nextAlertId, appSettings, proc,
                   runsStarted, agg, probe, conf>>

(* a run that has aggregated one article is about to enrich and commit it *)
InitMentions ==
    /\ now = InitialNow
    /\ mentions = {}
    /\ nextMentionId = 1
    /\ alerts = {}
    /\ nextAlertId = 1
    /\ appSettings = "row"
    /\ runsStarted = 1
    /\ agg = IdleAgg
    /\ probe = IdleProbe
    /\ conf = StaticConf
    /\ \E a \in Articles :
         proc = [r \in Procs |->
                   IF r = 1
                   THEN [IdleProc EXCEPT !.pc = "enrich", !.articles = <<a>>,
                                         !.aggregated = "nonempty"]
                   ELSE IdleProc]

NextMentions ==
    \/ \E r \in Procs : Enrich(r) \/ Commit(r)
    \/ \E content \in MentionContents, o \in EnrichOutcomes,
          store_ok \in BOOLEAN : create_mention(content, o, store_ok)
    \/ \E i \in MentionIds, sentiment \in UpdateSentiments,
          topic \in UpdateTopics : update_mention(i, sentiment, topic)
    \/ \E i \in MentionIds : delete_mention(i)

SpecMentions == InitMentions /\ [][NextMentions]_vars

(***************************************************************************)
(* The checks after a commit on their own: run_basic_alert_checks on a     *)
(* mentions table, whatever it holds, each detector meeting a store that   *)
(* answers or fails.                                                       *)
(***************************************************************************)
NegativeSpikingHistory ==
    {HistoryRow(i + 1, 29 + i, "negative") : i \in 1..8}
    \cup {HistoryRow(10, 38, "negative"), HistoryRow(11, 38, "negative")}

ChecksTables == Histories \cup DistTables \cup {NegativeSpikingHistory}

InitChecks ==
    /\ now = InitialNow
    /\ mentions \in ChecksTables
    /\ nextMentionId = 1
    /\ alerts = {}
    /\ nextAlertId = 1
    /\ appSettings = "row"
    /\ proc = [r \in Procs |->
                 IF r = 1
                 THEN [IdleProc EXCEPT !.pc = "checks",
                                       !.aggregated = "nonempty"]
                 ELSE IdleProc]
    /\ runsStarted = 1
    /\ agg = IdleAgg
    /\ probe = IdleProbe
    /\ conf = StaticConf

NextChecks ==
    \E r \in Procs :
        \/ SpikeDetect(r)
        \/ SpikeLookup(r)
        \/ SpikeInsert(r)
        \/ ShiftDetect(r)
        \/ ShiftInsert(r)

SpecChecks == InitChecks /\ [][NextChecks]_vars

(* one run from its aggregation on, next to the alerts API and as time   *)
(* passes, on a table that holds a spike of negative mentions             *)
InitLifecycle ==
    /\ now = InitialNow
    /\ mentions = NegativeSpikingHistory
    /\ nextMentionId = 12
    /\ alerts = {}
    /\ nextAlertId = 1
    /\ appSettings = "row"
    /\ proc = [r \in Procs |->
                 IF r = 1
                 THEN [IdleProc EXCEPT !.pc = "aggregate",
                                       !.before = NegativeSpikingHistory]
                 ELSE IdleProc]
    /\ runsStarted = 1
    /\ agg = IdleAgg
    /\ probe = IdleProbe
    /\ conf = StaticConf

NextLifecycle ==
    \/ Tick
    \/ \E r \in Procs : RunStep(r)
    \/ \E t \in ApiAlertTypes, sv \in ApiSeverities : create_alert(t, sv)
    \/ \E i \in AlertIds : resolve_alert(i)
    \/ \E i \in AlertIds : delete_alert(i)

SpecLifecycle == InitLifecycle /\ [][NextLifecycle]_vars

(***************************************************************************)
(* The credentials of a run, followed for the NewsAPI key.  The runs of    *)
(* one process (POST /run) share the module-level settings object, and a   *)
(* run suspends at "await asyncio.gather(...)" between the moment it loads *)
(* its effective settings and the moment its adapter tasks read their keys *)
(* from that object, so another run or a settings update can come between. *)
(***************************************************************************)
Keys == {"", "k1", "k2"}

Loaded(news_api_key) == [raised |-> FALSE, news_api_key |-> news_api_key]
LoadRaised == [raised |-> TRUE, news_api_key |-> ""]

(* no except clause: the SELECT on a missing table raises; otherwise      *)
(* "row[0] or settings.news_api_key", or the settings' value without a row *)
load_effective_settings(table, row, config) ==
    IF table = "notable" THEN LoadRaised
    ELSE IF table = "row" THEN Loaded(IF row # "" THEN row ELSE config)
    ELSE Loaded(config)

(* effective = load_effective_settings(); if effective.get("news_api_key"): *)
(* settings.news_api_key = effective["news_api_key"]; then up to the await  *)
(* of gather, the query being configured                                    *)
StartRunLoading(r) ==
    /\ ~Busy(r)
    /\ \A q \in Procs : q < r => proc[q].pc # "idle"
    /\ runsStarted < MaxRuns
    /\ runsStarted' = runsStarted + 1
    /\ LET effective == load_effective_settings(appSettings, conf.row,
                                                conf.settings)
       IN  IF effective.raised
           THEN /\ proc' = [proc EXCEPT ![r] =
                              Finish(IdleProc, "failed", "settings")]
                /\ conf' = conf
           ELSE /\ proc' = [proc EXCEPT ![r] =
                              [IdleProc EXCEPT
                                 !.pc = "gather",
                                 !.effective = effective.news_api_key]]
                /\ conf' = [conf EXCEPT
                              !.settings = IF effective.news_api_key # ""
                                           THEN effective.news_api_key
                                           ELSE @]
    /\ UNCHANGED <<now, mentions, nextMentionId, alerts, nextAlertId,
                   appSettings, agg, probe>>

(* the news task starts: api_key = settings.news_api_key.  What the run   *)
(* does with the answer of the source is left to the other specifications *)
NewsAdapterStart(r) ==
    /\ proc[r].pc = "gather"
    /\ proc' = [proc EXCEPT ![r] =
                  Finish([@ EXCEPT !.used = conf.settings], "ok", "none")]
    /\ UNCHANGED <<now, mentions, nextMentionId, alerts, nextAlertId,
                   appSettings, runsStarted, agg, probe, conf>>

(* GET /api/settings: ensure_settings_table_exists(), nothing written *)
get_settings ==
    /\ appSettings' = IF appSettings = "notable" THEN "norow" ELSE appSettings
    /\ UNCHANGED <<now, mentions, nextMentionId, alerts, nextAlertId, proc,
                   runsStarted, agg, probe, conf>>

(* PUT /api/settings with its news_api_key: the row is inserted or updated *)
update_settings_to(news_api_key) ==
    /\ appSettings' = "row"
    /\ conf' = [conf EXCEPT !.row = news_api_key]
    /\ UNCHANGED <<now, mentions, nextMentionId, alerts, nextAlertId, proc,
                   runsStarted, agg, probe>>

InitSettings ==
    /\ now = InitialNow
    /\ mentions = {}
    /\ nextMentionId = 1
    /\ alerts = {}
    /\ nextAlertId = 1
    /\ appSettings = "notable"
    /\ proc = [r \in Procs |-> IdleProc]
    /\ runsStarted = 0
    /\ agg = IdleAgg
    /\ probe = IdleProbe
    /\ conf \in {[StaticConf EXCEPT !.settings = k] : k \in Keys}

NextSettings ==
    \/ \E r \in Procs : StartRunLoading(r)
    \/ \E r \in Procs : NewsAdapterStart(r)
    \/ get_settings
    \/ \E k \in Keys : update_settings_to(k)

SpecSettings == InitSettings /\ [][NextSettings]_vars

(***************************************************************************)
(* list_alerts called on an alerts table, whatever it holds: up to three   *)
(* alerts of two types, active or resolved, two of them possibly created   *)
(* at the same instant.                                                    *)
(***************************************************************************)
ListedRow(id, alert_type, is_active, created_at) ==
    [AlertRow(id, alert_type, "medium", created_at, "manager")
       EXCEPT !.is_active = is_active,
              !.resolved_at = IF is_active = 1 THEN NoTime ELSE created_at + 1]

ListedRows(id, times) ==
    { {} } \cup
    { {ListedRow(id, t, act, c)} :
        t \in {"spike", "sentiment_shift"}, act \in {0, 1}, c \in times }

AlertTables ==
    { r1 \cup r2 \cup r3 :
        r1 \in ListedRows(1, {InitialNow - 2, InitialNow - 1}),
        r2 \in ListedRows(2, {InitialNow - 1, InitialNow}),
        r3 \in ListedRows(3, {InitialNow - 1}) }

ListFilters == {"none", "true", "false"}
ListTypes == {"", "spike", "sentiment_shift"}
ListLimits == {-1, 0, 1, 2, DefaultListLimit}

InitAlerts ==
    /\ now = InitialNow
    /\ mentions = {}
    /\ nextMentionId = 1
    /\ alerts \in AlertTables
    /\ nextAlertId = 4
    /\ appSettings = "row"
    /\ proc = [r \in Procs |-> IdleProc]
    /\ runsStarted = 0
    /\ agg = IdleAgg
    /\ probe = IdleProbe
    /\ conf = StaticConf

NextAlerts ==
    \E is_active \in ListFilters, alert_type \in ListTypes,
       limit \in ListLimits : list_alerts(is_active, alert_type, limit)

SpecAlerts == InitAlerts /\ [][NextAlerts]_vars

(***************************************************************************)
(* aggregate_all_sources task by task.  gather wraps the four coroutines   *)
(* into tasks in argument order; the event loop runs the ready tasks first *)
(* in, first out, and an adapter never suspends once it runs (its HTTP     *)
(* calls are blocking), so every task runs to its end before the next one  *)
(* starts.  The results are kept by argument position.                     *)
(***************************************************************************)
A == <<"a">>
B == <<"b">>
Blank == <<" ">>
Empty == <<>>

AggTwitterResps ==
    { NoResp,
      Resp(TRUE, "error", "ok", Body(<<>>)),
      Resp(TRUE, "notoken", "ok", Body(<<>>)),
      Resp(TRUE, "ok", "error", Body(<<>>)),
      Resp(TRUE, "ok", "ok", BadBody),
      Resp(TRUE, "ok", "ok", Body(<<Item(Empty, A, BadTs), BadItem>>)),
      Resp(TRUE, "ok", "ok", Body(<<Item(Empty, Blank \o A, BadTs),
                                    Item(Empty, Blank, BadTs)>>)),
      Resp(TRUE, "ok", "ok", Body(<<Item(Empty, B, BadTs),
                                    Item(Empty, A, NoTs)>>)) }

AggRedditResps ==
    { NoResp,
      Resp(TRUE, "ok", "ok", BadBody),
      Resp(TRUE, "ok", "ok", Body(<<Item(B, Empty, 70), Item(A, Blank, 70)>>)),
      Resp(TRUE, "ok", "ok", Body(<<Item(A, B \o Blank, BadTs)>>)) }

AggNewsResps ==
    { NoResp,
      Resp(TRUE, "ok", "error", Body(<<>>)),
      Resp(TRUE, "ok", "ok", BadBody),
      Resp(TRUE, "ok", "ok", Body(<<Item(A, Empty, 72), BadItem>>)),
      Resp(TRUE, "ok", "ok", Body(<<Item(Blank, Empty, 72), Item(A, B, NoTs)>>)),
      Resp(TRUE, "ok", "ok", Body(<<Item(B, Empty, 72), Item(A, Empty, 72)>>)) }

AggResps ==
    { [twitter |-> tw, reddit |-> rd, news |-> nw, blogs |-> NoResp] :
        tw \in AggTwitterResps, rd \in AggRedditResps, nw \in AggNewsResps }

InitAgg ==
    /\ Init
    /\ mentions = {}

(* results = await asyncio.gather(...): the four tasks become ready *)
GatherStart ==
    /\ agg.pc = "idle"
    /\ \E resps \in AggResps :
         agg' = [pc |-> "gather", resps |-> resps,
                 queue |-> [i \in DOMAIN AdapterOrder |-> i], running |-> 0,
                 results |-> [i \in {} |-> Raised],
                 calls |-> [i \in {} |-> <<>>], out |-> <<>>]
    /\ UNCHANGED pipelineVars

(* the event loop takes the task at the head of the ready queue once the  *)
(* task it was running is over: the coroutine starts, and its requests.post *)
(* and requests.get calls keep the loop's only thread until they answer     *)
TaskStart ==
    /\ agg.pc = "gather"
    /\ agg.running = 0
    /\ agg.queue # <<>>
    /\ agg' = [agg EXCEPT !.queue = Tail(@), !.running = Head(agg.queue)]
    /\ UNCHANGED pipelineVars

TaskResult(results, i, name, resp) ==
    [j \in DOMAIN results \cup {i} |->
        IF j = i THEN RunAdapter(name, resp) ELSE results[j]]

(* the running coroutine returns its list or raises *)
TaskFinish ==
    /\ agg.pc = "gather"
    /\ agg.running # 0
    /\ LET i == agg.running IN
       agg' = [agg EXCEPT !.running = 0,
                          !.results = TaskResult(@, i, AdapterOrder[i],
                                                 agg.resps[AdapterOrder[i]]),
                          !.calls = [j \in DOMAIN @ \cup {i} |->
                                       IF j = i
                                       THEN HttpCalls(AdapterOrder[i],
                                                      agg.resps[AdapterOrder[i]])
                                       ELSE @[j]]]
    /\ UNCHANGED pipelineVars

(* gather is over: it raises the exception of a task, or the flattening   *)
(* loop extends all_mentions with every result in argument order          *)
GatherJoin ==
    /\ agg.pc = "gather"
    /\ agg.queue = <<>>
    /\ agg.running = 0
    /\ agg' = IF \E i \in DOMAIN agg.results : agg.results[i].raised
              THEN [agg EXCEPT !.pc = "raised"]
              ELSE [agg EXCEPT !.pc = "returned",
                               !.out = Flatten([i \in DOMAIN agg.results |->
                                                   agg.results[i].out])]
    /\ UNCHANGED pipelineVars

NextAgg == GatherStart \/ TaskStart \/ TaskFinish \/ GatherJoin

SpecAgg == InitAgg /\ [][NextAgg]_vars

(***************************************************************************)
(* Properties.                                                             *)
(***************************************************************************)
ManagerActive(alert_type) ==
    {a \in ActiveOfType(alerts, alert_type) : a.via = "manager"}

(* C1: when the runs follow one another, the alerts raised from spike      *)
(* findings never comprise more than one active alert of type "spike": a   *)
(* run that detects the spike again while the alert is open adds none.     *)
C1_DedupSequential == Cardinality(ManagerActive("spike")) <= 1

(* a second run has detected the spike, declined to alert, and the one     *)
(* alert of the first run is still the only active one                     *)
C1_Witness ==
    /\ runsStarted = 2
    /\ proc[1].pc = "done"
    /\ proc[1].spikes_seen > 0
    /\ proc[1].run_alerts = {}
    /\ Cardinality(ManagerActive("spike")) = 1
    /\ Cardinality(ActiveOfType(alerts, "spike")) = 1

(* C2: with two overlapping runs that both detect a spike, at most one     *)
(* active alert of type "spike" exists in every reachable state.           *)
C2_DedupOverlap == Cardinality(ActiveOfType(alerts, "spike")) <= 1

(* C3: a detection cycle that has a spike finding while every alert of     *)
(* type "spike" in the table has been resolved goes on to insert one, and  *)
(* the insert, unless the store rejects it, adds a new active alert of     *)
(* type "spike".                                                           *)
C3_ResolvedDoesNotSuppress ==
    [][\A r \in Procs :
         /\ (/\ proc[r].pc = "spike_alerts"
             /\ proc'[r] # proc[r]
             /\ proc[r].findings # <<>>
             /\ \A a \in alerts :
                   a.alert_type = "spike" => a.resolved_at # NoTime)
            => proc'[r].pc = "spike_insert"
         /\ (/\ proc[r].pc = "spike_insert"
             /\ proc'[r] # proc[r]
             /\ alerts' # alerts)
            => \E a \in alerts' \ alerts :
                  /\ a.alert_type = "spike"
                  /\ a.is_active = 1
                  /\ a.id \in proc'[r].run_alerts
                  /\ \A b \in alerts : b.id < a.id]_vars

(* a resolved spike alert and a newer active one raised by the last run *)
C3_Witness ==
    \E a, b \in alerts :
        /\ a.alert_type = "spike" /\ a.via = "manager" /\ a.is_active = 0
        /\ b.alert_type = "spike" /\ b.via = "manager" /\ b.is_active = 1
        /\ a.id < b.id
        /\ b.id \in proc[1].run_alerts
        /\ proc[1].pc = "done"

(* C4: every alert row has resolved_at set exactly when it is not active. *)
C4_ResolvedIffInactive ==
    \A a \in alerts : (a.resolved_at # NoTime) <=> (a.is_active = 0)

(* a resolved alert next to an active one, after a delete *)
C4_Witness ==
    /\ \E a \in alerts : a.is_active = 0 /\ a.resolved_at # NoTime
    /\ \E a \in alerts : a.is_active = 1 /\ a.resolved_at = NoTime
    /\ \E i \in 1..(nextAlertId - 1) : AlertById(alerts, i) = {}

(* C5: resolving an alert that is already resolved is a no-op: a row that  *)
(* is resolved and still exists after a step is the same row.              *)
C5_ResolveIdempotent ==
    [][\A a \in alerts :
         (a.is_active = 0 /\ AlertById(alerts', a.id) # {}) => a \in alerts']_vars

(* C6: a run whose commit failed reports failure, has run no detection or  *)
(* alerting, and leaves the mentions table as it was when the run began.   *)
C6_CommitFailureRollsBack ==
    \A r \in Procs :
        proc[r].failed_at = "commit"
        => /\ proc[r].pc = "done"
           /\ proc[r].result = "failed"
           /\ proc[r].checks = "not_run"
           /\ proc[r].run_alerts = {}
           /\ proc[r].inserted = {}
           /\ mentions = proc[r].before

(* a run on a non-empty table has failed at its commit *)
C6_Witness ==
    /\ proc[1].failed_at = "commit"
    /\ proc[1].created_count = 2
    /\ mentions # {}

(* C7: detection and alerting never start before the run's commit, a run  *)
(* that has committed a batch returns only when they have finished, and    *)
(* every alert the run raises is in the alerts table from a step of the    *)
(* run that precedes or is its return.                                     *)
C7_ChecksBeforeReturn ==
    [][\A r \in Procs :
         /\ proc'[r].checks # "not_run" => proc'[r].inserted # {}
         /\ (proc[r].pc # "done" /\ proc'[r].pc = "done"
             /\ proc'[r].inserted # {})
            => /\ proc'[r].checks = "finished"
               /\ proc'[r].result = "ok"
         /\ \A i \in proc'[r].run_alerts \ proc[r].run_alerts :
               /\ AlertById(alerts', i) # {}
               /\ proc[r].pc \notin {"idle", "done"}]_vars

(* a run has returned after its commit with an alert it raised *)
C7_Witness ==
    /\ proc[1].pc = "done"
    /\ proc[1].inserted # {}
    /\ proc[1].checks = "finished"
    /\ \E a \in alerts : a.id \in proc[1].run_alerts /\ a.is_active = 1

C9_FailureOnlyOnCommit ==
    \A r \in Procs :
        (proc[r].result = "failed" /\ proc[r].aggregated # "none")
        => proc[r].failed_at = "commit"

(* C10: when aggregate_all_sources returns, its list is the outputs of     *)
(* twitter, reddit, news and blogs, in this order, one after the other.    *)
C10_ConcatInOrder ==
    agg.pc = "returned"
    => agg.out = aggregate_from_twitter(agg.resps.twitter).out
                 \o aggregate_from_reddit(agg.resps.reddit).out
                 \o aggregate_from_news(agg.resps.news).out
                 \o aggregate_from_blogs(agg.resps.blogs).out

(* three adapters have each returned items, and one of them two *)
C10_Witness ==
    /\ agg.pc = "returned"
    /\ Len(agg.results[1].out) = 2
    /\ Len(agg.results[2].out) = 1
    /\ Len(agg.results[3].out) = 2
    /\ Len(agg.out) = 5

(* the remote service of an adapter with credentials failed: a network,    *)
(* authentication or HTTP error, a timeout, or a malformed payload         *)
SourceFailed(resp) ==
    /\ resp.creds
    /\ \/ resp.auth # "ok"
       \/ resp.search # "ok"
       \/ resp.body.shape # "object"
       \/ \E k \in DOMAIN resp.body.items : resp.body.items[k].shape # "object"

FailedAdapters(resps) ==
    {i \in DOMAIN AdapterOrder : SourceFailed(resps[AdapterOrder[i]])}

(* C11: a call of aggregate_all_sources in which exactly one adapter's     *)
(* source failed returns without raising, and its list holds the complete  *)
(* outputs of the three other adapters in order.                           *)
C11_OneFailureTolerated ==
    (agg.pc \in {"returned", "raised"}
     /\ Cardinality(FailedAdapters(agg.resps)) = 1)
    => /\ agg.pc = "returned"
       /\ agg.out = Flatten([i \in DOMAIN AdapterOrder |->
                        IF i \in FailedAdapters(agg.resps) THEN <<>>
                        ELSE RunAdapter(AdapterOrder[i],
                                        agg.resps[AdapterOrder[i]]).out])

(* C12: every adapter task that has finished let no exception escape, and  *)
(* returned the empty list when its source failed.                         *)
C12_AdaptersNeverRaise ==
    \A i \in DOMAIN agg.results :
        /\ ~agg.results[i].raised
        /\ SourceFailed(agg.resps[AdapterOrder[i]]) => agg.results[i].out = <<>>

(* C20: while the fetch of one adapter is in progress no other adapter is  *)
(* kept from starting: every other adapter has started its own fetch.      *)
C20_FetchesOverlap ==
    (agg.running # 0 /\ agg.resps[AdapterOrder[agg.running]].creds)
    => agg.queue = <<>>

(* candidates whose content is not empty once stripped *)
WithContent(articles) ==
    SelectSeq(articles, LAMBDA item : Strip(item.content) # <<>>)

(* C13: the enrichment of a run whose scorers both fail does not raise,    *)
(* and stages one mention for every candidate with non-empty content, in   *)
(* order, each with sentiment neutral, confidence 0.5 and topic            *)
(* "uncategorized".                                                        *)
C13_EnrichmentFallback ==
    [][\A r \in Procs :
         (proc[r].pc = "enrich" /\ proc'[r].pc # "enrich"
          /\ proc'[r].scorers = "failed")
         => LET candidates == WithContent(proc[r].articles) IN
            /\ proc'[r].result # "failed"
            /\ proc'[r].created_count = Len(candidates)
            /\ Len(candidates) > 0
               => /\ proc'[r].pc = "commit"
                  /\ Len(proc'[r].staged) = Len(candidates)
                  /\ \A i \in DOMAIN candidates :
                        /\ proc'[r].staged[i].content
                             = Strip(candidates[i].content)
                        /\ proc'[r].staged[i].sentiment = "neutral"
                        /\ proc'[r].staged[i].sentiment_score
                             = FallbackConfidence
                        /\ proc'[r].staged[i].topic = "uncategorized"]_vars

(* two candidates, one of them blank, went through failing scorers and the *)
(* one mention was committed                                               *)
C13_Witness ==
    /\ proc[1].scorers = "failed"
    /\ proc[1].pc = "checks"
    /\ Len(proc[1].articles) = 2
    /\ proc[1].created_count = 1
    /\ \E m \in mentions :
          /\ m.sentiment = "neutral"
          /\ m.sentiment_score = FallbackConfidence
          /\ m.topic = "uncategorized"
          /\ m.content = <<"a">>

(***************************************************************************)
(* The statistics of the buckets, computed from the table itself: the      *)
(* mentions created since cutoff, in buckets of width ticks.  With n       *)
(* buckets of counts x summing to S, mean = S / n and the sample variance  *)
(* is the sum of (n * x - S)^2 over the buckets, divided by n^2 * (n - 1). *)
(***************************************************************************)
Since(cutoff) == {m \in mentions : m.created_at >= cutoff}

InBucket(win, width, b) ==
    {m \in win : b * width <= m.created_at /\ m.created_at < (b + 1) * width}

BucketsOf(win, width) ==
    {b \in 0..(MaxTime \div width) : InBucket(win, width, b) # {}}

RECURSIVE SumDev2(_, _, _, _)
SumDev2(buckets, win, width, n) ==
    IF buckets = {} THEN 0
    ELSE LET b == CHOOSE x \in buckets : TRUE
             dev == n * Cardinality(InBucket(win, width, b)) - Cardinality(win)
         IN  dev * dev + SumDev2(buckets \ {b}, win, width, n)

(* count of bucket b > mean + (sigma2 / 2) * stdev *)
AboveThreshold(win, width, b, sigma2) ==
    LET buckets == BucketsOf(win, width)
        n == Cardinality(buckets)
        d == n * Cardinality(InBucket(win, width, b)) - Cardinality(win)
    IN  d > 0 /\ 4 * d * d * (n - 1) > sigma2 * sigma2 * SumDev2(buckets, win, width, n)

(* count of bucket b = mean + (sigma2 / 2) * stdev *)
AtThreshold(win, width, b, sigma2) ==
    LET buckets == BucketsOf(win, width)
        n == Cardinality(buckets)
        d == n * Cardinality(InBucket(win, width, b)) - Cardinality(win)
    IN  d >= 0 /\ 4 * d * d * (n - 1) = sigma2 * sigma2 * SumDev2(buckets, win, width, n)

HourWindow == Since(probe.at - DefaultWindowHours * TicksPerHour)
DayWindow == Since(probe.at - DefaultDays * 24 * TicksPerHour)

(* C14: a call of detect_spikes whose query succeeded reports, once each   *)
(* and in order of time, exactly the hour buckets of the window whose      *)
(* count is strictly greater than mean + sigma * stdev (sample standard    *)
(* deviation, 0 for a single bucket); the daily detector of the analytics  *)
(* API does the same over day buckets.                                     *)
C14_SpikesExactlyAboveThreshold ==
    /\ (probe.op = "detect_spikes" /\ probe.query_ok)
       => /\ {<<probe.spikes[i].timestamp, probe.spikes[i].count>> :
                 i \in DOMAIN probe.spikes}
             = {<<h * TicksPerHour,
                  Cardinality(InBucket(HourWindow, TicksPerHour, h))>> :
                 h \in {b \in BucketsOf(HourWindow, TicksPerHour) :
                          AboveThreshold(HourWindow, TicksPerHour, b,
                                         probe.sigma2)}}
          /\ \A i, j \in DOMAIN probe.spikes :
                i < j => probe.spikes[i].timestamp < probe.spikes[j].timestamp
    /\ probe.op = "analytics_spikes"
       => /\ {<<probe.spikes[i].date, probe.spikes[i].count>> :
                 i \in DOMAIN probe.spikes}
             = {<<d, Cardinality(InBucket(DayWindow, 24 * TicksPerHour, d))>> :
                 d \in {b \in BucketsOf(DayWindow, 24 * TicksPerHour) :
                          AboveThreshold(DayWindow, 24 * TicksPerHour, b,
                                         probe.sigma2)}}
          /\ \A i, j \in DOMAIN probe.spikes :
                i < j => probe.spikes[i].date < probe.spikes[j].date

(* detect_spikes has left out a bucket whose count equals the threshold,   *)
(* sigma being positive and the buckets unequal                            *)
C14_Witness ==
    /\ probe.op = "detect_spikes"
    /\ probe.query_ok
    /\ probe.sigma2 > 0
    /\ probe.spikes = <<>>
    /\ Cardinality(BucketsOf(HourWindow, TicksPerHour)) = 3
    /\ \E b \in BucketsOf(HourWindow, TicksPerHour) :
          /\ AtThreshold(HourWindow, TicksPerHour, b, probe.sigma2)
          /\ 3 * Cardinality(InBucket(HourWindow, TicksPerHour, b))
               > Cardinality(HourWindow)

(* detect_spikes has been called with the default sigma of 2.5 on the      *)
(* table of the example                                                    *)
ExampleCall(sigma2) ==
    /\ mentions = ExampleTable
    /\ probe.op = "detect_spikes"
    /\ probe.query_ok
    /\ probe.sigma2 = sigma2

(* the finding of the hour of 100 mentions, with the percentage            *)
(* (100 - mean) / mean * 100 = 337.5 for the mean 160 / 7                  *)
ExampleFinding(f) ==
    /\ f.count = 100
    /\ f.timestamp = (NowHour - 1) * TicksPerHour
    /\ 2 * f.pct_num = 675 * f.pct_den

(* C15 as stated: with the counts [10,10,10,10,10,10,100] and sigma 2.5    *)
(* the hour of 100 mentions is flagged, with its percentage.               *)
C15_ExampleFlagged ==
    ExampleCall(DefaultSigmaTimes2)
    => \E i \in DOMAIN probe.spikes : ExampleFinding(probe.spikes[i])

(* C15 amended: with the counts [10,10,10,10,10,10,100] the threshold      *)
(* mean + 2.5 * stdev is above 100 and sigma 2.5 flags nothing; sigma 2    *)
(* flags the hour of 100 mentions and nothing else, with the percentage    *)
(* (100 - mean) / mean * 100.                                              *)
C15_ExampleFlaggedAtSigmaTwo ==
    /\ ExampleCall(DefaultSigmaTimes2) => probe.spikes = <<>>
    /\ ExampleCall(4)
       => Len(probe.spikes) = 1 /\ ExampleFinding(probe.spikes[1])

(* sigma 2.5 has found nothing in the example, a bucket of which is above  *)
(* mean + 2 * stdev                                                        *)
C15_Witness ==
    /\ ExampleCall(DefaultSigmaTimes2)
    /\ probe.spikes = <<>>
    /\ \E b \in BucketsOf(HourWindow, TicksPerHour) :
          /\ Cardinality(InBucket(HourWindow, TicksPerHour, b)) = 100
          /\ AboveThreshold(HourWindow, TicksPerHour, b, 4)
          /\ ~AboveThreshold(HourWindow, TicksPerHour, b, DefaultSigmaTimes2)

(* the sentiment distribution of the window, counted from the table *)
Labelled(label) == Cardinality({m \in HourWindow : m.sentiment = label})

(* C16: a call of detect_sentiment_shift whose query succeeded answers     *)
(* none when the window holds no positive, negative or neutral mention;    *)
(* otherwise negative when more than 50 percent of them are negative;      *)
(* otherwise positive when fewer than 20 percent are; otherwise neutral.   *)
C16_ShiftClassification ==
    (probe.op = "detect_sentiment_shift" /\ probe.query_ok)
    => LET negative == Labelled("negative")
           total == Labelled("positive") + negative + Labelled("neutral")
       IN  /\ probe.shift.negative = negative
           /\ probe.shift.total = total
           /\ total = 0 => probe.shift.shift = NoShift
           /\ (total > 0 /\ 2 * negative > total)
              => probe.shift.shift = "negative"
           /\ (total > 0 /\ 2 * negative <= total /\ 5 * negative < total)
              => probe.shift.shift = "positive"
           /\ (total > 0 /\ 2 * negative <= total /\ 5 * negative >= total)
              => probe.shift.shift = "neutral"

(* the distribution {positive: 10, negative: 60, neutral: 30} has been     *)
(* classified negative                                                     *)
C16_Witness ==
    /\ probe.op = "detect_sentiment_shift"
    /\ probe.query_ok
    /\ Labelled("positive") = 10
    /\ Labelled("negative") = 60
    /\ Labelled("neutral") = 30
    /\ probe.shift.shift = "negative"

DetectorOps == {"detect_spikes", "analytics_spikes", "detect_sentiment_shift"}

C19_SpikeAlertShape ==
    [][(alerts' # alerts)
       => \E a \in alerts' :
            LET f == probe.spikes[probe'.arg] IN
            /\ a \notin alerts
            /\ alerts' = alerts \cup {a}
            /\ a.alert_type = "spike"
            /\ a.is_active = 1
            /\ a.resolved_at = NoTime
            /\ a.severity \in {"high", "medium"}
            /\ a.severity = "high"
                 <=> f.count * f.baseline_n > 2 * f.baseline_sum
            /\ a.severity = "high" <=> f.pct_num > 100 * f.pct_den]_vars

(* an alert of severity medium raised from a finding whose percentage is   *)
(* exactly 100                                                             *)
C19_Witness ==
    /\ probe.op = "create_spike_alert"
    /\ probe.spikes[probe.arg].pct_num = 100 * probe.spikes[probe.arg].pct_den
    /\ \E a \in alerts :
          /\ a.alert_type = "spike"
          /\ a.severity = "medium"
          /\ a.is_active = 1
          /\ a.resolved_at = NoTime

(* C18: the detection cycle of a run goes on to raise a sentiment_shift    *)
(* alert exactly when its finding is classified negative and no active     *)
(* alert of that type exists; the alert it inserts is active, of type      *)
(* "sentiment_shift", of severity medium when fewer than 70 percent of the *)
(* mentions are negative and high when more than 70 percent are; no other  *)
(* step adds an alert of that type.                                        *)
C18_NegativeShiftAlert ==
    [][/\ \A r \in Procs :
            /\ (proc[r].pc = "shift_detect" /\ proc'[r] # proc[r])
               => /\ alerts' = alerts
                  /\ proc'[r].pc \in {"shift_insert", "done"}
                  /\ proc'[r].shift_seen
                       \in {"negative", "positive", "neutral", NoShift}
                  /\ proc'[r].pc = "shift_insert"
                       <=> /\ proc'[r].shift_seen = "negative"
                           /\ ActiveOfType(alerts, "sentiment_shift") = {}
                  /\ proc'[r].pc = "shift_insert"
                       => /\ proc'[r].shift.shift = "negative"
                          /\ 2 * proc'[r].shift.negative > proc'[r].shift.total
            /\ (proc[r].pc = "shift_insert" /\ proc'[r] # proc[r]
                /\ alerts' # alerts)
               => \E a \in alerts' :
                    LET f == proc[r].shift IN
                    /\ a \notin alerts
                    /\ alerts' = alerts \cup {a}
                    /\ a.alert_type = "sentiment_shift"
                    /\ a.is_active = 1
                    /\ a.severity \in {"medium", "high"}
                    /\ 10 * f.negative < 7 * f.total => a.severity = "medium"
                    /\ 10 * f.negative > 7 * f.total => a.severity = "high"
       /\ \A a \in alerts' \ alerts :
            (a.alert_type = "sentiment_shift" /\ AlertById(alerts, a.id) = {})
            => \E r \in Procs : /\ proc[r].pc = "shift_insert"
                                /\ proc[r].shift.shift = "negative"]_vars

(* a run has raised a sentiment_shift alert of medium severity: two of the *)
(* three mentions of the window are negative                               *)
C18_Witness ==
    /\ proc[1].pc = "done"
    /\ proc[1].shift_seen = "negative"
    /\ \E a \in alerts :
          /\ a.alert_type = "sentiment_shift"
          /\ a.severity = "medium"
          /\ a.id \in proc[1].run_alerts
    /\ Cardinality({m \in mentions : m.sentiment = "negative"}) = 2
    /\ Cardinality(mentions) = 3

(***************************************************************************)
(* C21: every ingestion run that has started eventually completes, with    *)
(* success or with failure, whatever its adapters and its scorers meet.    *)
(***************************************************************************)
C21_EveryRunCompletes ==
    \A r \in Procs : Busy(r) ~> (proc[r].pc = "done")

(***************************************************************************)
(* C22: list_alerts returns only alerts that match every supplied filter,  *)
(* newest first, at most limit of them, and the ones it leaves out are not *)
(* newer than the ones it returns.                                         *)
(***************************************************************************)
Matches(a) ==
    /\ probe.is_active = "true" => a.is_active = 1
    /\ probe.is_active = "false" => a.is_active = 0
    /\ probe.alert_type # "" => a.alert_type = probe.alert_type

C22_ListAlertsFilteredNewestFirst ==
    (probe.op = "list_alerts" /\ ~probe.listed.raised) =>
        LET out == probe.listed.out
            matching == {a \in alerts : Matches(a)}
            listed == {out[i] : i \in DOMAIN out}
        IN  /\ listed \subseteq matching
            /\ \A i, j \in DOMAIN out :
                  /\ i < j => out[i].created_at >= out[j].created_at
                  /\ i # j => out[i].id # out[j].id
            /\ Len(out) <= probe.limit
            /\ Len(out) = probe.limit \/ listed = matching
            /\ \A a \in matching \ listed, b \in listed :
                  a.created_at <= b.created_at

(* a listing cut by the limit, under both filters, of alerts of which two  *)
(* that match were created at the same instant                             *)
C22_Witness ==
    /\ probe.op = "list_alerts"
    /\ probe.is_active = "true"
    /\ probe.alert_type = "spike"
    /\ probe.limit = 2
    /\ Len(probe.listed.out) = 2
    /\ Cardinality({a \in alerts : Matches(a)}) = 3
    /\ \E a, b \in {a \in alerts : Matches(a)} :
          a.id # b.id /\ a.created_at = b.created_at

(***************************************************************************)
(* C23: the news adapter of a run uses exactly the key the run loaded at   *)
(* its start, whatever other runs and settings updates do meanwhile.       *)
(***************************************************************************)
C23_AdapterUsesLoadedKey ==
    \A r \in Procs : proc[r].used # "unset" => proc[r].used = proc[r].effective

(***************************************************************************)
(* C30: a run never fails on loading its settings: started before any      *)
(* settings were saved, without an app_settings table or row, it falls     *)
(* back to the configuration and goes on to the aggregation.               *)
(***************************************************************************)
C30_SettingsFallBack ==
    \A r \in Procs :
        proc[r].pc = "done" =>
            /\ proc[r].failed_at # "settings"
            /\ proc[r].effective # "unset"

(***************************************************************************)
(* C24: an adapter whose credentials are missing returns an empty list     *)
(* without any authentication or search call, and the aggregation does not *)
(* fail because of it: when gather raises, an adapter with credentials     *)
(* raised, and when no adapter has credentials the aggregation returns the *)
(* empty list.                                                             *)
(***************************************************************************)
MissingCredentials(i) == ~agg.resps[AdapterOrder[i]].creds

C24_MissingCredentialsSkip ==
    /\ \A i \in DOMAIN agg.results :
          MissingCredentials(i) =>
              /\ agg.results[i] = Returned(<<>>)
              /\ agg.calls[i] = <<>>
    /\ agg.pc = "raised" =>
          \E i \in DOMAIN agg.results :
              ~MissingCredentials(i) /\ agg.results[i].raised
    /\ (agg.pc \in {"returned", "raised"}
          /\ \A i \in DOMAIN agg.results : MissingCredentials(i)) =>
          (agg.pc = "returned" /\ agg.out = <<>>)

(* Twitter and Reddit without credentials next to a NewsAPI that answers  *)
C24_Witness ==
    /\ agg.pc = "returned"
    /\ MissingCredentials(1)
    /\ MissingCredentials(2)
    /\ ~MissingCredentials(3)
    /\ agg.calls[1] = <<>>
    /\ agg.calls[3] = <<"search">>
    /\ agg.out # <<>>

(***************************************************************************)
(* C25: every candidate an aggregation hands to a run has non-empty,       *)
(* stripped content; the enrichment loop stages one mention per candidate  *)
(* with that content, the commit writes one row per staged mention, and    *)
(* every persisted mention has non-empty content.                          *)
(***************************************************************************)
NonEmptyContent(c) == c # <<>> /\ Strip(c) = c

C25_OneMentionPerCandidate ==
    [][\A r \in Procs :
        /\ proc'[r].pc = "enrich" =>
              \A i \in DOMAIN proc'[r].articles :
                  NonEmptyContent(proc'[r].articles[i].content)
        /\ (proc[r].pc = "enrich" /\ proc'[r].pc # "enrich") =>
              /\ proc'[r].pc = "commit"
              /\ Len(proc'[r].staged) = Len(proc[r].articles)
              /\ \A i \in DOMAIN proc[r].articles :
                    /\ proc'[r].staged[i].content = proc[r].articles[i].content
                    /\ proc'[r].staged[i].source = proc[r].articles[i].source
        /\ (proc[r].pc = "commit" /\ proc'[r].pc = "checks") =>
              /\ mentions \subseteq mentions'
              /\ Cardinality(mentions' \ mentions) = Len(proc[r].staged)
              /\ \A i \in DOMAIN proc[r].staged :
                    \E m \in mentions' \ mentions :
                        /\ m.id = nextMentionId + i - 1
                        /\ m.content = proc[r].staged[i].content
        /\ \A m \in mentions' : NonEmptyContent(m.content)
    ]_vars

(* Twitter answered a tweet with padded text and a blank one, NewsAPI one *)
(* article: two candidates, two mentions                                   *)
C25_Witness ==
    /\ proc[1].pc = "checks"
    /\ proc[1].aggregated = "nonempty"
    /\ Cardinality(proc[1].inserted) = 2
    /\ \E m \in mentions :
          m.id \in proc[1].inserted /\ m.source = "twitter" /\ m.content = <<"a">>
    /\ \E m \in mentions : m.id \in proc[1].inserted /\ m.source = "news"

(***************************************************************************)
(* C26: a failing detector is recovered locally.  detect_spikes answers no *)
(* findings and detect_sentiment_shift answers no shift when their query   *)
(* fails, the checks never fail the run, what a check saw is what its      *)
(* detector computes from the table or the answer of the failed call, and  *)
(* the sentiment check has run in every run whose checks are over,         *)
(* whatever happened to the spike check.                                   *)
(***************************************************************************)
C26_DetectionErrorsRecovered ==
    LET spikes == detect_spikes(mentions, now, DefaultSigmaTimes2,
                                DefaultWindowHours, TRUE)
        shift == detect_sentiment_shift(mentions, now, DefaultWindowHours, TRUE)
    IN  /\ detect_spikes(mentions, now, DefaultSigmaTimes2,
                         DefaultWindowHours, FALSE) = <<>>
        /\ detect_sentiment_shift(mentions, now, DefaultWindowHours,
                                  FALSE).shift = NoShift
        /\ \A r \in Procs :
              /\ proc[r].result # "failed"
              /\ proc[r].checks # "not_run" =>
                    proc[r].spikes_seen \in {0, Len(spikes)}
              /\ proc[r].shift_seen \in {"unseen", NoShift, shift.shift}
              /\ proc[r].pc = "done" =>
                    /\ proc[r].checks = "finished"
                    /\ proc[r].shift_seen # "unseen"

(* the spike check failed on a table that holds a spike, and the sentiment *)
(* check still found the negative shift and raised its alert               *)
C26_Witness ==
    /\ proc[1].pc = "done"
    /\ proc[1].result = "ok"
    /\ proc[1].spikes_seen = 0
    /\ detect_spikes(mentions, now, DefaultSigmaTimes2, DefaultWindowHours,
                     TRUE) # <<>>
    /\ proc[1].shift_seen = "negative"
    /\ \E a \in alerts : a.alert_type = "sentiment_shift"
    /\ ~\E a \in alerts : a.alert_type = "spike"

(***************************************************************************)
(* C27: in every reachable state, after any sequence of ingestion runs,    *)
(* create_mention and update_mention, every persisted mention has a        *)
(* sentiment label among positive, negative and neutral.                   *)
(***************************************************************************)
C27_SentimentLabelled ==
    \A m \in mentions : m.sentiment \in {"positive", "negative", "neutral"}

(***************************************************************************)
(* C28: detect_spikes reports nothing when the look-back window holds no   *)
(* bucket or a single bucket of any size, and nothing when all the buckets *)
(* of the window have the same count.                                      *)
(***************************************************************************)
C28_NoSpikeWithoutVariation ==
    probe.op = "detect_spikes" =>
        LET buckets == BucketsOf(HourWindow, TicksPerHour)
            size(b) == Cardinality(InBucket(HourWindow, TicksPerHour, b))
        IN  (Cardinality(buckets) < 2
             \/ \A a, b \in buckets : size(a) = size(b))
            => probe.spikes = <<>>

(* one bucket of four mentions in the window, an older mention outside it *)
C28_Witness ==
    /\ probe.op = "detect_spikes"
    /\ probe.query_ok
    /\ Cardinality(BucketsOf(HourWindow, TicksPerHour)) = 1
    /\ Cardinality(HourWindow) = 4
    /\ Cardinality(mentions) = 5
    /\ probe.spikes = <<>>

(***************************************************************************)
(* C29: the life of an alert is monotonic.  A new alert is active and      *)
(* unresolved; a row changes only by becoming or staying resolved, in a    *)
(* step of the API that no run takes part in, and a resolved alert never   *)
(* becomes active again; an alert leaves the table only in a step that     *)
(* does nothing but remove that one row, as delete_alert does.             *)
(***************************************************************************)
C29_AlertLifecycleMonotonic ==
    [][/\ \A b \in alerts' :
             AlertById(alerts, b.id) = {} =>
                 (b.is_active = 1 /\ b.resolved_at = NoTime)
       /\ \A a \in alerts, b \in alerts' :
             (a.id = b.id /\ a # b) =>
                 /\ b.is_active = 0
                 /\ b.resolved_at = now
                 /\ [b EXCEPT !.is_active = a.is_active,
                              !.resolved_at = a.resolved_at] = a
                 /\ proc' = proc
       /\ \A a \in alerts :
             AlertById(alerts', a.id) = {} =>
                 /\ alerts' = alerts \ {a}
                 /\ proc' = proc
                 /\ mentions' = mentions
                 /\ nextAlertId' = nextAlertId
    ]_vars

(* after a run an alert was resolved, another one deleted, and a later one *)
(* is active                                                               *)
C29_Witness ==
    /\ \E r \in Procs : proc[r].pc = "done" /\ proc[r].run_alerts # {}
    /\ \E a, b \in alerts :
          /\ a.is_active = 0
          /\ a.resolved_at > a.created_at
          /\ b.is_active = 1
          /\ b.id > a.id
    /\ Cardinality(alerts) < nextAlertId - 1

====
